---- MODULE Spec2Model ----
(***************************************************************************)
(* Model of the OAuth2 credential manager of yahoo-mail-mcp                *)
(* (src/src/oauth2.ts, class YahooOAuth2) and of the two places that ask   *)
(* it for a token (YahooIMAPClient.connect, YahooCalDAVClient.initialize). *)
(*                                                                         *)
(* JavaScript values are modelled with their type, so that undefined, NaN, *)
(* null and the empty string behave as they do in the code (truthiness,    *)
(* comparison with NaN, JSON serialisation).                               *)
(*                                                                         *)
(* An async method is cut at its awaits.  An await of an HTTP POST is a    *)
(* suspension that ends in a later event-loop task (the response).  An     *)
(* await of loadTokens is a microtask suspension: calls started in the     *)
(* same synchronous turn may run in between, a response task may not.      *)
(* The awaits that follow a response (await saveTokens, the return of the  *)
(* async function, the await in getAccessToken) only chain microtasks of   *)
(* the same call, so the continuation of a response runs to the end of the *)
(* call in one step.  File-system calls are taken to succeed.              *)
(***************************************************************************)
EXTENDS Integers, FiniteSets, Sequences, TLC

\* ------------------------------------------------------------------ bounds
NCallers  == 2        \* concurrent asynchronous calls
MaxOps    == 3        \* calls started and advances of the clock in one behaviour
StartTime == 1000000  \* Date.now() when the manager is constructed (ms)

Callers == 1..NCallers

\* messages in a folder, and the largest limit and offset of a call
MaxN == 3
MaxLimit == 3
MaxOffset == 4
MaxConn == 2
MaxCalOps == 2
MaxHours == 2
NMessages == 2
MaxChunks == 2
NRequests == 2

\* ------------------------------------------------------- JavaScript values
Str(s)    == [t |-> "string",    s |-> s,  n |-> 0]
Num(n)    == [t |-> "number",    s |-> "", n |-> n]
NaN       == [t |-> "NaN",       s |-> "", n |-> 0]
Undefined == [t |-> "undefined", s |-> "", n |-> 0]
Null      == [t |-> "null",      s |-> "", n |-> 0]
Bool(b)   == [t |-> "boolean",   s |-> "", n |-> IF b THEN 1 ELSE 0]
Date(d)   == [t |-> "object",    s |-> "", n |-> d]

\* ToBoolean: "", 0, NaN, null and undefined are falsy
Truthy(v) ==
    CASE v.t = "string" -> v.s # ""
      [] v.t = "number" -> v.n # 0
      [] v.t = "object" -> TRUE
      [] v.t = "boolean" -> v.n # 0
      [] OTHER          -> FALSE

\* a || b
JsOr(a, b) == IF Truthy(a) THEN a ELSE b

\* ToNumber, for the operand of an arithmetic operator
ToNumber(v) ==
    CASE v.t = "number" -> v
      [] v.t = "null"   -> Num(0)
      [] v.t = "string" -> IF v.s = "" THEN Num(0) ELSE NaN
      [] OTHER          -> NaN

JsMul(a, b) ==
    LET x == ToNumber(a)  y == ToNumber(b)
    IN  IF x.t = "NaN" \/ y.t = "NaN" THEN NaN ELSE Num(x.n * y.n)

JsAdd(a, b) ==
    LET x == ToNumber(a)  y == ToNumber(b)
    IN  IF x.t = "NaN" \/ y.t = "NaN" THEN NaN ELSE Num(x.n + y.n)

JsSub(a, b) ==
    LET x == ToNumber(a)  y == ToNumber(b)
    IN  IF x.t = "NaN" \/ y.t = "NaN" THEN NaN ELSE Num(x.n - y.n)

\* a >= b: false as soon as one side is NaN
JsGE(a, b) ==
    LET x == ToNumber(a)  y == ToNumber(b)
    IN  x.t # "NaN" /\ y.t # "NaN" /\ x.n >= y.n

\* ------------------------------------------------------------ OAuthTokens
OAuthTokens(a, r, e, tt) ==
    [t |-> "object", accessToken |-> a, refreshToken |-> r,
     expiresAt |-> e, tokenType |-> tt]

IsSet(tk) == tk.t = "object"

\* ------------------------------------------------------------- token file
NoFile      == [f |-> "absent"]
CorruptFile == [f |-> "corrupt"]
JsonFile(o) == [f |-> "json", v |-> o]

\* JSON.stringify(tokens, null, 2): NaN is written as null; a property whose
\* value is undefined is left out, which reads back as undefined
JSONstringify(tk) ==
    [tk EXCEPT !.expiresAt = IF @.t = "NaN" THEN Null ELSE @]

\* JSON.parse(data) as OAuthTokens
JSONparse(o) == o

\* saveTokens: fs.writeFileSync(storagePath, JSON.stringify(tokens, null, 2))
saveTokens(tk) == JsonFile(JSONstringify(tk))

\* faulty variant: the structure test without the refresh token
LoadValidWithoutRefreshToken(o) == Truthy(o.accessToken) /\ Truthy(o.expiresAt)

\* the structure test of loadTokens
LoadValid(o) ==
    Truthy(o.accessToken) /\ Truthy(o.refreshToken) /\ Truthy(o.expiresAt)

\* faulty variant: clearTokens forgets the set and leaves the file
unlinkTokensSkipped(d) == d

\* clearTokens: fs.unlinkSync(storagePath) when the file exists
unlinkTokens(d) == NoFile

\* loadTokens: undefined when the file is absent, unreadable or fails the test
loadTokens(d) ==
    IF d.f = "json" /\ LoadValid(JSONparse(d.v)) THEN JSONparse(d.v) ELSE Undefined

\* --------------------------------------------------------------- constants
\* 5 * 60 * 1000 in getAccessToken
MarginMs == 5 * 60 * 1000

\* faulty variant: the margin test with > in place of >=
NeedsRefreshBoundaryExcluded(tk, t) ==
    /\ JsGE(Num(t), JsSub(tk.expiresAt, Num(MarginMs)))
    /\ Num(t) # JsSub(tk.expiresAt, Num(MarginMs))

\* the margin test of getAccessToken
NeedsRefresh(tk, t) == JsGE(Num(t), JsSub(tk.expiresAt, Num(MarginMs)))

\* ------------------------------------------------------------------ inputs
\* what the provider may answer to a POST numbered n
AccessName(n)  == Str("A" \o ToString(n))
RefreshName(n) == Str("R" \o ToString(n))
HttpError == [status |-> "error"]

Response(a, r, e, tt) ==
    [status |-> "ok", access_token |-> a, refresh_token |-> r, expires_in |-> e,
     token_type |-> tt]

\* a failure, a complete answer, an answer without the optional fields, answers
\* without access_token and without expires_in, and an answer with a lifetime
\* of zero
Responses(n) ==
    {HttpError,
     Response(AccessName(n), RefreshName(n), Num(3600), Str("bearer")),
     Response(AccessName(n), Undefined,      Num(3600), Undefined),
     Response(Undefined,     RefreshName(n), Num(3600), Str("bearer")),
     Response(AccessName(n), RefreshName(n), Undefined, Str("bearer")),
     Response(AccessName(n), RefreshName(n), Num(0),    Str("bearer"))}

\* credential sets on disk before the manager is constructed: one on the edge
\* of the margin, one a millisecond outside it
StoredSets ==
    {OAuthTokens(Str("A0"), Str("R0"), Num(StartTime + d), Str("Bearer")) :
        d \in {MarginMs, MarginMs + 1}}

\* setTokens is given a set that is still good, or an expired one without a
\* refresh token
SetTokensInputs ==
    {OAuthTokens(Str("A0"), Str("R0"), Num(StartTime + MarginMs + 1), Str("Bearer")),
     OAuthTokens(Str("A0"), Str(""), Num(StartTime), Str("Bearer"))}

InitialFiles ==
    {NoFile, CorruptFile} \cup {saveTokens(s) : s \in StoredSets}
    \cup {JsonFile(OAuthTokens(Str("A0"), Undefined, Num(StartTime + 3600 * 1000), Str("Bearer")))}

TickSteps == {1, 3600 * 1000}

\* ------------------------------------------------------------------- state
VARIABLES
    tokens,     \* this.tokens: a credential set or Undefined
    disk,       \* tokens.json
    now,        \* Date.now()
    pc,         \* where each call is suspended
    kind,       \* the operation each call runs
    loaded,     \* the pending result of loadTokens
    req,        \* the POST a call made
    start,      \* what a call found when it was started
    dec,        \* what the margin test of a call saw
    posts,      \* POSTs made by a call
    resp,       \* the response a call received
    res,        \* the outcome of a call
    dirty,      \* another operation wrote the credential set during the call
    nposts,     \* POSTs made to the token endpoint
    nops,       \* calls started and advances of the clock
    seqOK,      \* since the clock last moved: only getAccessToken calls, one
                \* at a time, and only successful responses
    quietPosts, \* refresh POSTs since the clock last moved
    cleared,    \* calls of clearTokens since the credential set was last written
    mpc,        \* where the mailbox operation is
    mop,        \* fetchEmails, searchEmails or getEmail
    limit,      \* params.limit
    offset,     \* params.offset
    emailId,    \* the identifier given to getEmail
    results,    \* the identifiers that match, in server order
    uids,       \* the identifiers selected for fetching
    arriving,   \* messages the fetch has still to deliver
    parsing,    \* messages whose simpleParser promise is pending
    failed,     \* messages whose parse failed
    emails,     \* the records pushed so far (by identifier)
    fend,       \* the fetch emits no further event
    merr,       \* the server or the connection reported an error
    mres,       \* how the promise of the operation was settled
    params,     \* the filter arguments of the call
    criteria,   \* the filter given to this.imap.search
    connected,  \* this.connected
    imap,       \* this.imap: 0 is null, otherwise the number of the connection object
    link,       \* the transport of the connection object held
    nconn,      \* connections opened since the client was constructed
    clean,      \* since construction no connection has failed or been closed
                \* and connect() was not called from outside
    live,       \* the connection objects whose transport is open
    called,     \* a mailbox operation has been invoked since construction
    reused,     \* the operation found the client connected
    issued,     \* the operation has given the server a mailbox command
    cfail,      \* the error with which connect() failed in this operation
    boxes,      \* the hierarchy getBoxes gave to its callback
    client,     \* this.client of the calendar client, with the token it was given
    cpc,        \* where the calendar operation is
    cop,        \* the calendar operation and what it found
    cals,       \* the calendars listCalendars returned
    targets,    \* fetchEvents: calendars
    outcomes,   \* fetchEvents: what the object queries made so far gave
    allEvents,  \* fetchEvents: allEvents
    requests,   \* the protocol requests of the operation
    cres,       \* the outcome of the calendar operation
    cops,       \* calendar operations invoked
    dateArg,    \* the argument of parseICalendarDate
    dateRes,    \* what parseICalendarDate gave
    chunks,     \* per fetched message, the number of chunks of its body
    sent,       \* per message, the chunks its body stream has emitted
    emailBuffer,  \* per message, emailBuffer of its handler
    parserInput,  \* per message, the buffer simpleParser was given
    parsedEmails, \* the records pushed, each with the bytes it was parsed from
    rpc,        \* per request of the server, where its operation is
    rfolder,    \* per request, the folder argument
    queue,      \* the commands given to the connection and not yet completed
    selected,   \* the folder selected on the connection
    fetchedIn   \* per request, the folder selected when its fetch ran

vars == <<tokens, disk, now, pc, kind, loaded, req, start, dec, posts, resp,
          res, dirty, nposts, nops, seqOK, quietPosts, cleared>>

cvars == <<connected, imap, link, nconn, clean, live, called, reused, issued, cfail, boxes>>

mvars == <<mpc, mop, limit, offset, emailId, results, uids, arriving, parsing,
           failed, emails, fend, merr, mres, params, criteria, cvars>>

calvars == <<client, cpc, cop, cals, targets, outcomes, allEvents, requests, cres, cops>>

dvars == <<dateArg, dateRes>>

svars == <<chunks, sent, emailBuffer, parserInput, parsedEmails>>

hvars == <<rpc, rfolder, queue, selected, fetchedIn>>

xvars == <<dvars, svars, hvars>>

allvars == <<vars, mvars, calvars, xvars>>

None == [t |-> "none"]
NoReq == [n |-> 0, refresh_token |-> Undefined]

\* getAccessToken is called by connect (IMAP) and by initialize (CalDAV)
TokenKinds == {"connect", "initialize"}

Init ==
    /\ tokens = Undefined
    /\ disk \in InitialFiles
    /\ now = StartTime
    /\ pc = [c \in Callers |-> "idle"]
    /\ kind = [c \in Callers |-> "none"]
    /\ loaded = [c \in Callers |-> Undefined]
    /\ req = [c \in Callers |-> NoReq]
    /\ start = [c \in Callers |-> None]
    /\ dec = [c \in Callers |-> None]
    /\ posts = [c \in Callers |-> 0]
    /\ resp = [c \in Callers |-> None]
    /\ res = [c \in Callers |-> None]
    /\ dirty = [c \in Callers |-> FALSE]
    /\ nposts = 0
    /\ nops = 0
    /\ seqOK = TRUE
    /\ quietPosts = 0
    /\ cleared = 0
    /\ mpc = "idle"
    /\ mop = "none"
    /\ limit = 0
    /\ offset = 0
    /\ emailId = 0
    /\ results = <<>>
    /\ uids = <<>>
    /\ arriving = {}
    /\ parsing = {}
    /\ failed = {}
    /\ emails = <<>>
    /\ fend = FALSE
    /\ merr = FALSE
    /\ mres = None
    /\ params = [t |-> "none"]
    /\ criteria = <<>>
    /\ connected = FALSE
    /\ imap = 0
    /\ link = "none"
    /\ nconn = 0
    /\ clean = TRUE
    /\ live = {}
    /\ called = FALSE
    /\ reused = FALSE
    /\ issued = FALSE
    /\ cfail = ""
    /\ boxes = <<>>
    /\ client = None
    /\ cpc = "idle"
    /\ cop = [name |-> "none", calendarId |-> Undefined, had |-> None,
              startDate |-> Undefined, endDate |-> Undefined]
    /\ cals = [known |-> FALSE, list |-> <<>>]
    /\ targets = <<>>
    /\ outcomes = <<>>
    /\ allEvents = <<>>
    /\ requests = <<>>
    /\ cres = None
    /\ cops = 0
    /\ dateArg = <<>>
    /\ dateRes = None
    /\ chunks = <<>>
    /\ sent = <<>>
    /\ emailBuffer = <<>>
    /\ parserInput = <<>>
    /\ parsedEmails = <<>>
    /\ rpc = [r \in 1..NRequests |-> "none"]
    /\ rfolder = [r \in 1..NRequests |-> ""]
    /\ queue = <<>>
    /\ selected = ""
    /\ fetchedIn = [r \in 1..NRequests |-> ""]

\* ---------------------------------------------------------------- outcomes
Ok(v, tk)  == [ok |-> TRUE,  err |-> "", val |-> v, set |-> tk, at |-> now]
Fail(e)    == [ok |-> FALSE, err |-> e, val |-> Undefined, set |-> Undefined, at |-> now]

Idle(c) == pc[c] = "idle"

\* calls are interchangeable: a new call takes the first slot that is not in use
Free(c) == Idle(c) /\ \A d \in Callers : d < c => ~Idle(d)

\* the call of getAccessToken, refreshAccessToken or exchangeCodeForToken made
\* by c ends with outcome r
Finish(c, r) ==
    /\ pc' = [pc EXCEPT ![c] = "done"]
    /\ res' = [res EXCEPT ![c] = r]

\* what a call finds when it is started: whether a set is cached, the token
\* file if none is, and the calls of clearTokens since the set was last written
Found == [cached |-> IsSet(tokens), file |-> IF IsSet(tokens) THEN NoFile ELSE disk,
          clears |-> cleared]

\* the credential set a call works on, and the time
Seen(tk) == [E |-> tk.expiresAt, T |-> now, tok |-> tk.accessToken, rt |-> tk.refreshToken]

\* the calls that are suspended while call c (0: a synchronous caller) writes
\* the credential set
Touch(c) == [d \in Callers |-> IF d # c /\ ~Idle(d) THEN TRUE ELSE dirty[d]]

\* the outcome of a finished call is taken by its caller before anything else
\* runs
NoOutcomePending == \A c \in Callers : pc[c] # "done"

\* a response task runs only when no microtask is pending
NoMicrotaskPending == \A c \in Callers : pc[c] # "ga_await_load"

\* ----------------------------------------------------- refreshAccessToken
\* the credential set built from a refresh response at time t
RefreshedSet(prev, r, t) ==
    OAuthTokens(r.access_token,
                IF Truthy(r.refresh_token) THEN r.refresh_token ELSE prev.refreshToken,
                JsAdd(Num(t), JsMul(r.expires_in, Num(1000))),
                JsOr(r.token_type, Str("Bearer")))

\* faulty variant: the catch block swallows the error and the old token is returned
OnRefreshErrorSwallowed(c) ==
    Finish(c, IF IsSet(tokens) THEN Ok(tokens.accessToken, tokens) ELSE Fail("TypeError"))

\* the catch block of refreshAccessToken: the error is thrown again
OnRefreshError(c) == Finish(c, Fail("RefreshFailed"))

\* refreshAccessToken up to its await, with this.tokens = tk
EnterRefresh(c, tk) ==
    IF ~(IsSet(tk) /\ Truthy(tk.refreshToken))
    THEN /\ Finish(c, Fail("NoRefreshToken"))
         /\ posts' = [posts EXCEPT ![c] = 0]
         /\ UNCHANGED <<req, nposts, quietPosts>>
    ELSE /\ pc' = [pc EXCEPT ![c] = "rf_await_post"]
         /\ req' = [req EXCEPT ![c] = [n |-> nposts + 1, refresh_token |-> tk.refreshToken]]
         /\ posts' = [posts EXCEPT ![c] = 1]
         /\ nposts' = nposts + 1
         /\ quietPosts' = quietPosts + 1
         /\ res' = [res EXCEPT ![c] = None]

\* --------------------------------------------------------- getAccessToken
\* getAccessToken from its test of this.tokens on, with this.tokens = tk
Decide(c, tk) ==
    IF ~IsSet(tk)
    THEN /\ Finish(c, Fail("NoTokens"))
         /\ dec' = [dec EXCEPT ![c] = None]
         /\ posts' = [posts EXCEPT ![c] = 0]
         /\ UNCHANGED <<req, nposts, quietPosts>>
    ELSE /\ dec' = [dec EXCEPT ![c] = Seen(tk)]
         /\ IF NeedsRefresh(tk, now)
            THEN EnterRefresh(c, tk)
            ELSE /\ Finish(c, Ok(tk.accessToken, tk))
                 /\ posts' = [posts EXCEPT ![c] = 0]
                 /\ UNCHANGED <<req, nposts, quietPosts>>

\* a call of getAccessToken, made by connect or by initialize
BeginToken(c, k) ==
    /\ UNCHANGED <<mvars, calvars, xvars>>
    /\ Free(c)
    /\ nops < MaxOps
    /\ NoOutcomePending
    /\ kind' = [kind EXCEPT ![c] = k]
    /\ nops' = nops + 1
    /\ start' = [start EXCEPT ![c] = Found]
    /\ seqOK' = (seqOK /\ \A d \in Callers \ {c} : Idle(d))
    /\ dirty' = [dirty EXCEPT ![c] = FALSE]
    /\ resp' = [resp EXCEPT ![c] = None]
    /\ IF IsSet(tokens)
       THEN /\ Decide(c, tokens)
            /\ UNCHANGED loaded
       ELSE /\ loaded' = [loaded EXCEPT ![c] = loadTokens(disk)]
            /\ pc' = [pc EXCEPT ![c] = "ga_await_load"]
            /\ res' = [res EXCEPT ![c] = None]
            /\ dec' = [dec EXCEPT ![c] = None]
            /\ posts' = [posts EXCEPT ![c] = 0]
            /\ UNCHANGED <<req, nposts, quietPosts>>
    /\ UNCHANGED <<tokens, disk, now, cleared>>

\* this.tokens = await this.loadTokens(), and on to the return or the POST
ResumeAfterLoad(c) ==
    /\ UNCHANGED <<mvars, calvars, xvars>>
    /\ pc[c] = "ga_await_load"
    /\ NoOutcomePending
    /\ tokens' = loaded[c]
    /\ loaded' = [loaded EXCEPT ![c] = Undefined]
    /\ dirty' = Touch(c)
    /\ Decide(c, loaded[c])
    /\ cleared' = (IF IsSet(loaded[c]) THEN 0 ELSE cleared)
    /\ UNCHANGED <<disk, now, kind, start, resp, nops, seqOK>>

\* a direct call of refreshAccessToken
BeginRefresh(c) ==
    /\ UNCHANGED <<mvars, calvars, xvars>>
    /\ Free(c)
    /\ nops < MaxOps
    /\ NoOutcomePending
    /\ kind' = [kind EXCEPT ![c] = "refresh"]
    /\ nops' = nops + 1
    /\ start' = [start EXCEPT ![c] = Found]
    /\ seqOK' = FALSE
    /\ dirty' = [dirty EXCEPT ![c] = FALSE]
    /\ resp' = [resp EXCEPT ![c] = None]
    /\ dec' = [dec EXCEPT ![c] = IF IsSet(tokens) THEN Seen(tokens) ELSE None]
    /\ EnterRefresh(c, tokens)
    /\ UNCHANGED <<tokens, disk, now, loaded, cleared>>

\* the response to a refresh POST, and the rest of the call
RefreshResponse(c, r) ==
    /\ UNCHANGED <<mvars, calvars, xvars>>
    /\ pc[c] = "rf_await_post"
    /\ NoMicrotaskPending
    /\ NoOutcomePending
    /\ r \in Responses(req[c].n)
    /\ resp' = [resp EXCEPT ![c] = r]
    /\ IF r.status = "error"
       THEN /\ OnRefreshError(c)
            /\ seqOK' = FALSE
            /\ UNCHANGED <<tokens, disk, dirty, cleared>>
       ELSE IF ~Truthy(r.refresh_token) /\ ~IsSet(tokens)
       THEN \* this.tokens.refreshToken of undefined: a TypeError, thrown again
            /\ Finish(c, Fail("TypeError"))
            /\ UNCHANGED <<tokens, disk, dirty, seqOK, cleared>>
       ELSE /\ tokens' = RefreshedSet(tokens, r, now)
            /\ disk' = saveTokens(tokens')
            /\ dirty' = Touch(c)
            /\ Finish(c, IF kind[c] = "refresh" THEN Ok(tokens', tokens')
                      ELSE Ok(tokens'.accessToken, tokens'))
            /\ cleared' = 0
            /\ UNCHANGED seqOK
    /\ UNCHANGED <<now, kind, loaded, req, start, dec, posts, nposts, nops, quietPosts>>

\* ---------------------------------------------------- exchangeCodeForToken
\* the credential set built from an exchange response at time t
ExchangedSet(r, t) ==
    OAuthTokens(r.access_token, r.refresh_token,
                JsAdd(Num(t), JsMul(r.expires_in, Num(1000))),
                JsOr(r.token_type, Str("Bearer")))

BeginExchange(c) ==
    /\ UNCHANGED <<mvars, calvars, xvars>>
    /\ Free(c)
    /\ nops < MaxOps
    /\ NoOutcomePending
    /\ kind' = [kind EXCEPT ![c] = "exchange"]
    /\ nops' = nops + 1
    /\ start' = [start EXCEPT ![c] = Found]
    /\ seqOK' = FALSE
    /\ dirty' = [dirty EXCEPT ![c] = FALSE]
    /\ pc' = [pc EXCEPT ![c] = "ex_await_post"]
    /\ req' = [req EXCEPT ![c] = [n |-> nposts + 1, refresh_token |-> Undefined]]
    /\ posts' = [posts EXCEPT ![c] = 1]
    /\ nposts' = nposts + 1
    /\ resp' = [resp EXCEPT ![c] = None]
    /\ dec' = [dec EXCEPT ![c] = None]
    /\ res' = [res EXCEPT ![c] = None]
    /\ UNCHANGED <<tokens, disk, now, loaded, quietPosts, cleared>>

ExchangeResponse(c, r) ==
    /\ UNCHANGED <<mvars, calvars, xvars>>
    /\ pc[c] = "ex_await_post"
    /\ NoMicrotaskPending
    /\ NoOutcomePending
    /\ r \in Responses(req[c].n)
    /\ resp' = [resp EXCEPT ![c] = r]
    /\ IF r.status = "error"
       THEN /\ Finish(c, Fail("ExchangeFailed"))
            /\ UNCHANGED <<tokens, disk, dirty, cleared>>
       ELSE /\ tokens' = ExchangedSet(r, now)
            /\ disk' = saveTokens(tokens')
            /\ dirty' = Touch(c)
            /\ cleared' = 0
            /\ Finish(c, Ok(tokens', tokens'))
    /\ UNCHANGED <<now, kind, loaded, req, start, dec, posts, nposts, nops,
                   seqOK, quietPosts>>

\* ------------------------------------------------- connect, initialize
\* how the operation that asked for the token ends when getAccessToken fails
\* with outcome r: connect rejects with the error it caught, initialize throws
\* a new Error whose message holds it
OperationFailure(k, r) ==
    IF k = "initialize"
    THEN [ok |-> FALSE, err |-> "Failed to initialize CalDAV client: " \o r.err]
    ELSE [ok |-> FALSE, err |-> r.err]

\* ------------------------------------------------- setTokens, clearTokens
SetTokens(s) ==
    /\ UNCHANGED <<mvars, calvars, xvars>>
    /\ nops < MaxOps
    /\ NoOutcomePending
    /\ nops' = nops + 1
    /\ tokens' = s
    /\ cleared' = 0
    /\ dirty' = Touch(0)
    /\ seqOK' = FALSE
    /\ UNCHANGED <<disk, now, pc, kind, loaded, req, start, dec, posts, resp, res,
                   nposts, quietPosts>>

ClearTokens ==
    /\ UNCHANGED <<mvars, calvars, xvars>>
    /\ nops < MaxOps
    /\ NoOutcomePending
    /\ nops' = nops + 1
    /\ tokens' = Undefined
    /\ disk' = unlinkTokens(disk)
    /\ cleared' = (IF cleared < 2 THEN cleared + 1 ELSE 2)
    /\ dirty' = Touch(0)
    /\ seqOK' = FALSE
    /\ UNCHANGED <<now, pc, kind, loaded, req, start, dec, posts, resp, res,
                   nposts, quietPosts>>

\* ------------------------------------------------------------ environment
\* the caller takes the outcome of its call; nothing else runs before it has
Return(c) ==
    /\ UNCHANGED <<mvars, calvars, xvars>>
    /\ pc[c] = "done"
    /\ pc' = [pc EXCEPT ![c] = "idle"]
    /\ kind' = [kind EXCEPT ![c] = "none"]
    /\ start' = [start EXCEPT ![c] = None]
    /\ dec' = [dec EXCEPT ![c] = None]
    /\ posts' = [posts EXCEPT ![c] = 0]
    /\ resp' = [resp EXCEPT ![c] = None]
    /\ res' = [res EXCEPT ![c] = None]
    /\ dirty' = [dirty EXCEPT ![c] = FALSE]
    /\ req' = [req EXCEPT ![c] = NoReq]
    /\ UNCHANGED <<tokens, disk, now, loaded, nposts, nops, seqOK, quietPosts,
                   cleared>>

\* time passes
Tick(d) ==
    /\ UNCHANGED <<mvars, calvars, xvars>>
    /\ nops < MaxOps
    /\ NoOutcomePending
    /\ nops' = nops + 1
    /\ now' = now + d
    /\ seqOK' = \A c \in Callers : Idle(c)
    /\ quietPosts' = 0
    /\ UNCHANGED <<tokens, disk, pc, kind, loaded, req, start, dec, posts, resp, res,
                   dirty, nposts, cleared>>

Next ==
    \/ \E c \in Callers, k \in TokenKinds : BeginToken(c, k)
    \/ \E c \in Callers : ResumeAfterLoad(c)
    \/ \E c \in Callers : BeginRefresh(c)
    \/ \E c \in Callers : \E r \in Responses(req[c].n) : RefreshResponse(c, r)
    \/ \E c \in Callers : BeginExchange(c)
    \/ \E c \in Callers : \E r \in Responses(req[c].n) : ExchangeResponse(c, r)
    \/ \E s \in SetTokensInputs : SetTokens(s)
    \/ ClearTokens
    \/ \E c \in Callers : Return(c)
    \/ \E d \in TickSteps : Tick(d)

Spec == Init /\ [][Next]_allvars

\* =========================================================== YahooIMAPClient
\* fetchEmails, searchEmails and getEmail on an established connection, one
\* operation at a time.  A message is named by its identifier.

\* Math.max
MathMax(a, b) == IF a >= b THEN a ELSE b

\* an index given to Array.prototype.slice, for an array of length len
SliceIndex(k, len) ==
    IF k < 0 THEN MathMax(len + k, 0) ELSE IF k > len THEN len ELSE k

\* Array.prototype.slice(a, b)
slice(arr, a, b) ==
    LET from == SliceIndex(a, Len(arr))
        to   == SliceIndex(b, Len(arr))
    IN  IF from < to THEN SubSeq(arr, from + 1, to) ELSE <<>>

\* Array.prototype.reverse
reverse(arr) == [i \in 1..Len(arr) |-> arr[Len(arr) + 1 - i]]

\* the identifiers of a folder with n messages, oldest first
Box(n) == [i \in 1..n |-> 10 + i]

\* identifiers given to getEmail: the oldest message and one past the largest
\* folder
EmailIds == {11, 10 + MaxN + 1}

Range(f) == {f[i] : i \in DOMAIN f}

\* fetchEmails: the pagination of the search results
FetchSelection(found, lim, off) ==
    LET startIdx == MathMax(0, Len(found) - off - lim)
        endIdx   == Len(found) - off
    IN  reverse(slice(found, MathMax(0, startIdx), endIdx))

\* searchEmails: results.slice(-limit).reverse()
SearchSelection(found, lim) == reverse(slice(found, 0 - lim, Len(found)))

Resolve(v) == [ok |-> TRUE,  val |-> v,    err |-> ""]
Reject(e)  == [ok |-> FALSE, val |-> <<>>, err |-> e]

\* resolve or reject: a promise is settled once, later calls change nothing
Settle(r) == mres' = IF mres = None THEN r ELSE mres

\* ------------------------------------------------------ search criteria
\* one predicate of an IMAP search: its key and its argument
Predicate(k, a) == [k |-> k, a |-> a]
All == <<Predicate("ALL", Undefined)>>

\* the filter arguments of fetchEmails and of searchEmails
FetchParams(unreadOnly, since) ==
    [t |-> "fetch", unreadOnly |-> unreadOnly, since |-> since]
SearchParams(query, from, subject, dateRange) ==
    [t |-> "search", query |-> query, from |-> from, subject |-> subject,
     dateRange |-> dateRange]
DateRange(lo, hi) == [t |-> "object", start |-> lo, end |-> hi]
NoParams == [t |-> "none"]

\* the arguments the calls are given: absent, empty or false, and present
FetchParamsInputs ==
    {FetchParams(u, d) : u \in {Undefined, Bool(FALSE), Bool(TRUE)},
                         d \in {Undefined, Date(1)}}
SearchParamsInputs ==
    {SearchParams(q, f, sb, dr) :
        q \in {Undefined, Str(""), Str("q")},
        f \in {Undefined, Str("f")},
        sb \in {Undefined, Str("s")},
        dr \in {Undefined} \cup
               {DateRange(a, b) : a \in {Undefined, Date(1)}, b \in {Undefined, Date(2)}}}

\* criteria.push(x) if the condition holds
PushIf(cond, crit, x) == IF cond THEN Append(crit, x) ELSE crit

\* fetchEmails: the criteria array; unreadOnly defaults to false
FetchCriteria(p) ==
    LET c1 == PushIf(Truthy(IF p.unreadOnly = Undefined THEN Bool(FALSE) ELSE p.unreadOnly),
                     <<>>, Predicate("UNSEEN", Undefined))
    IN  PushIf(Truthy(p.since), c1, Predicate("SINCE", p.since))

\* faulty variant: searchEmails without the BEFORE predicate
SearchCriteriaWithoutBefore(p) ==
    LET c1 == PushIf(Truthy(p.query), <<>>, Predicate("OR BODY SUBJECT", p.query))
        c2 == PushIf(Truthy(p.from), c1, Predicate("FROM", p.from))
        c3 == PushIf(Truthy(p.subject), c2, Predicate("SUBJECT", p.subject))
    IN  PushIf(Truthy(p.dateRange) /\ Truthy(p.dateRange.start), c3,
               Predicate("SINCE", p.dateRange.start))

\* searchEmails: the criteria array
SearchCriteria(p) ==
    LET c1 == PushIf(Truthy(p.query), <<>>, Predicate("OR BODY SUBJECT", p.query))
        c2 == PushIf(Truthy(p.from), c1, Predicate("FROM", p.from))
        c3 == PushIf(Truthy(p.subject), c2, Predicate("SUBJECT", p.subject))
        c4 == PushIf(Truthy(p.dateRange) /\ Truthy(p.dateRange.start), c3,
                     Predicate("SINCE", p.dateRange.start))
    IN  PushIf(Truthy(p.dateRange) /\ Truthy(p.dateRange.end), c4,
               Predicate("BEFORE", p.dateRange.end))

\* criteria.length > 0 ? criteria : ['ALL']
SearchArgument(p) ==
    LET crit == IF p.t = "fetch" THEN FetchCriteria(p) ELSE SearchCriteria(p)
    IN  IF Len(crit) > 0 THEN crit ELSE All

\* ------------------------------------------------------------ connection
isConnected == connected /\ imap # 0

\* faulty variant: every operation connects
NeedsConnectAlways == TRUE

\* if (!this.connected || !this.imap) await this.connect()
NeedsConnect == ~connected \/ ~(imap # 0)

\* the operations that talk to the mailbox
MailboxOps == {"fetchEmails", "getEmail", "searchEmails", "listMailboxes"}

\* the first command of an operation: getBoxes or openBox
FirstCommand(op) == IF op = "listMailboxes" THEN "boxes" ELSE "open"

\* what the 'error' event of a connection reports
ConnectErrors == {"TransportError", "AuthenticationError"}

\* faulty variant: connect() fails with an error of its own
ConnectRejectsOther(e) == Reject("IMAP connection not available")

\* connect(): reject(err) and reject(error)
ConnectRejects(e) == Reject(e)

\* a call of one of the operations; the folder holds n messages
MailCall(op, n, l, o, id, p) ==
    /\ mpc = "idle"
    /\ NeedsConnect => nconn < MaxConn
    /\ params' = p
    /\ criteria' = <<>>
    /\ mpc' = (IF NeedsConnect THEN "token" ELSE FirstCommand(op))
    /\ reused' = ~NeedsConnect
    /\ issued' = ~NeedsConnect
    /\ called' = TRUE
    /\ cfail' = ""
    /\ boxes' = <<>>
    /\ UNCHANGED <<connected, imap, link, nconn, clean, live>>
    /\ mop' = op
    /\ limit' = l
    /\ offset' = o
    /\ emailId' = id
    /\ results' = Box(n)
    /\ uids' = <<>>
    /\ arriving' = {}
    /\ parsing' = {}
    /\ failed' = {}
    /\ emails' = <<>>
    /\ fend' = FALSE
    /\ merr' = FALSE
    /\ mres' = None
    /\ UNCHANGED <<vars, calvars, xvars>>

CallFetchEmails(n, l, o, p) == MailCall("fetchEmails", n, l, o, 0, p)

CallSearchEmails(n, l, p) == MailCall("searchEmails", n, l, 0, 0, p)

CallGetEmail(n, id) == MailCall("getEmail", n, 0, 0, id, NoParams)

CallListMailboxes == MailCall("listMailboxes", 0, 0, 0, 0, NoParams)

\* connect() called from outside, whatever the state of the client: it
\* asks for a token and opens a connection without looking at this.imap
CallConnect ==
    /\ mpc = "idle"
    /\ nconn < MaxConn
    /\ mop' = "connect"
    /\ mpc' = "token"
    /\ clean' = FALSE
    /\ called' = TRUE
    /\ reused' = FALSE
    /\ issued' = FALSE
    /\ cfail' = ""
    /\ boxes' = <<>>
    /\ mres' = None
    /\ UNCHANGED <<connected, imap, link, nconn, live>>
    /\ UNCHANGED <<limit, offset, emailId, results, uids, arriving, parsing, failed,
                   emails, fend, merr, params, criteria>>
    /\ UNCHANGED <<vars, calvars, xvars>>

\* the fields of the operation in progress, which connecting leaves alone
opvars == <<mop, limit, offset, emailId, results, uids, arriving, parsing, failed,
            emails, fend, merr, params, criteria>>

\* connect(): await this.oauth2.getAccessToken(), then new Imap(...), the
\* registration of the handlers and this.imap.connect(); a rejected token
\* is caught and rejects connect()
ConnectToken(ok) ==
    /\ mpc = "token"
    /\ IF ok
       THEN /\ imap' = nconn + 1
            /\ nconn' = nconn + 1
            /\ link' = "connecting"
            /\ live' = live \cup {nconn + 1}
            /\ mpc' = "connecting"
            /\ UNCHANGED <<mres, cfail, clean>>
       ELSE /\ Settle(ConnectRejects("TokenError"))
            /\ cfail' = "TokenError"
            /\ clean' = FALSE
            /\ mpc' = "over"
            /\ UNCHANGED <<imap, nconn, link, live>>
    /\ UNCHANGED <<connected, called, reused, issued, boxes>>
    /\ UNCHANGED opvars
    /\ UNCHANGED <<vars, calvars, xvars>>

\* the 'ready' event: connect() resolves and the operation that called it
\* goes on to its first command
ConnReady ==
    /\ mpc = "connecting"
    /\ link = "connecting"
    /\ connected' = TRUE
    /\ link' = "up"
    /\ IF mop = "connect"
       THEN /\ Settle(Resolve(<<>>))
            /\ mpc' = "over"
            /\ issued' = FALSE
       ELSE /\ mres' = mres
            /\ mpc' = FirstCommand(mop)
            /\ issued' = TRUE
    /\ UNCHANGED <<imap, nconn, clean, live, called, reused, cfail, boxes>>
    /\ UNCHANGED opvars
    /\ UNCHANGED <<vars, calvars, xvars>>

\* the 'error' event of the connection held, while connect() is pending or
\* between two operations; the handler is registered with once
ConnError(e) ==
    /\ link \in {"connecting", "up"}
    /\ mpc \in {"idle", "connecting"}
    /\ connected' = FALSE
    /\ link' = "down"
    /\ live' = live \ {imap}
    /\ clean' = FALSE
    /\ IF mpc = "connecting"
       THEN /\ Settle(ConnectRejects(e))
            /\ cfail' = e
            /\ mpc' = "over"
       ELSE UNCHANGED <<mres, cfail, mpc>>
    /\ UNCHANGED <<imap, nconn, called, reused, issued, boxes>>
    /\ UNCHANGED opvars
    /\ UNCHANGED <<vars, calvars, xvars>>

\* the server or the network closes the connection between two operations
\* ('end' and 'close' events): connect() registers no handler for them
ConnEnd ==
    /\ link = "up"
    /\ mpc = "idle"
    /\ link' = "down"
    /\ live' = live \ {imap}
    /\ clean' = FALSE
    /\ UNCHANGED <<connected, imap, nconn, called, reused, issued, cfail, boxes, mres, mpc>>
    /\ UNCHANGED opvars
    /\ UNCHANGED <<vars, calvars, xvars>>

\* disconnect(): this.imap.end() and the registration of the 'end' handler,
\* or resolve() at once
Disconnect ==
    /\ mpc = "idle"
    /\ mop' = "disconnect"
    /\ clean' = FALSE
    /\ IF imap # 0 /\ connected
       THEN /\ mpc' = "ending"
            /\ mres' = mres
       ELSE /\ mpc' = "over"
            /\ Settle(Resolve(<<>>))
    /\ UNCHANGED <<connected, imap, link, nconn, live, called, reused, issued, cfail, boxes>>
    /\ UNCHANGED <<limit, offset, emailId, results, uids, arriving, parsing, failed,
                   emails, fend, merr, params, criteria>>
    /\ UNCHANGED <<vars, calvars, xvars>>

\* the 'end' event after this.imap.end(); whether a connection that is
\* already down still emits it is the library's affair
DisconnectEnd ==
    /\ mpc = "ending"
    /\ connected' = FALSE
    /\ imap' = 0
    /\ link' = "none"
    /\ live' = live \ {imap}
    /\ Settle(Resolve(<<>>))
    /\ mpc' = "over"
    /\ UNCHANGED <<nconn, clean, called, reused, issued, cfail, boxes>>
    /\ UNCHANGED opvars
    /\ UNCHANGED <<vars, calvars, xvars>>

\* --------------------------------------------------------- listMailboxes
\* one entry of the object getBoxes gives: the key and the box
Folder(name, delimiter, children) ==
    [name |-> name, delimiter |-> delimiter, children |-> children]

FolderNames == {"A", "B"}
Delimiters == {"/", "."}

\* hierarchies whose folders hold the hierarchies of C
HierarchiesOver(C) ==
    {<<>>}
    \cup {<<Folder(nm, d, c)>> : nm \in FolderNames, d \in Delimiters, c \in C}
    \cup {<<Folder("A", d, c), Folder("B", d, <<>>)>> : d \in Delimiters, c \in C}

\* the hierarchies getBoxes gives, nested up to three deep
Hierarchies == HierarchiesOver(HierarchiesOver(HierarchiesOver({<<>>})))

\* faulty variant: every folder under its own name
RECURSIVE extractBoxesWithoutPrefix(_, _)
extractBoxesWithoutPrefix(boxList, prefix) ==
    IF boxList = <<>>
    THEN <<>>
    ELSE LET box == Head(boxList)
             fullName == box.name
         IN  <<fullName>>
             \o (IF box.children # <<>>
                 THEN extractBoxesWithoutPrefix(box.children, fullName) ELSE <<>>)
             \o extractBoxesWithoutPrefix(Tail(boxList), prefix)

\* extractBoxes: the names pushed to mailboxList, in the order of the pushes
RECURSIVE extractBoxes(_, _)
extractBoxes(boxList, prefix) ==
    IF boxList = <<>>
    THEN <<>>
    ELSE LET box == Head(boxList)
             fullName == IF prefix # "" THEN prefix \o box.delimiter \o box.name
                         ELSE box.name
         IN  <<fullName>>
             \o (IF box.children # <<>> THEN extractBoxes(box.children, fullName) ELSE <<>>)
             \o extractBoxes(Tail(boxList), prefix)

\* the callback of getBoxes
GetBoxes(err, h) ==
    /\ mpc = "boxes"
    /\ IF err
       THEN /\ Settle(Reject("getBoxes"))
            /\ merr' = TRUE
            /\ boxes' = boxes
       ELSE /\ Settle(Resolve(extractBoxes(h, "")))
            /\ merr' = merr
            /\ boxes' = h
    /\ mpc' = "over"
    /\ UNCHANGED <<connected, imap, link, nconn, clean, live, called, reused, issued, cfail>>
    /\ UNCHANGED <<mop, limit, offset, emailId, results, uids, arriving, parsing, failed,
                   emails, fend, params, criteria>>
    /\ UNCHANGED <<vars, calvars, xvars>>

\* what imap.fetch does with an empty list of identifiers is not in the
\* source: it throws inside the callback, or it gives a fetch that delivers
\* nothing
FetchOfNothing == {"throws", "ends"}

\* this.imap.fetch(u, ...) and the registration of the handlers
StartFetch(u, f) ==
    /\ uids' = u
    /\ IF u = <<>>
       THEN /\ mpc' = (IF f = "throws" THEN "thrown" ELSE "fetch")
            /\ arriving' = {}
       ELSE /\ f = "throws"
            /\ mpc' = "fetch"
            /\ arriving' = Range(u) \cap Range(results)

\* the callback of openBox
OpenBox(err, f) ==
    /\ mpc = "open"
    /\ IF err
       THEN /\ f = "throws"
            /\ Settle(Reject("openBox"))
            /\ mpc' = "over"
            /\ merr' = TRUE
            /\ UNCHANGED <<uids, arriving, criteria>>
       ELSE IF mop = "getEmail"
       THEN /\ StartFetch(<<emailId>>, f)
            /\ UNCHANGED <<mres, merr, criteria>>
       ELSE /\ f = "throws"
            /\ mpc' = "search"
            /\ criteria' = SearchArgument(params)
            /\ UNCHANGED <<mres, merr, uids, arriving>>
    /\ UNCHANGED params
    /\ UNCHANGED <<mop, limit, offset, emailId, results, parsing, failed, emails, fend>>
    /\ UNCHANGED <<vars, cvars, calvars, xvars>>

\* the callback of search
SearchDone(err, f) ==
    /\ mpc = "search"
    /\ IF err
       THEN /\ f = "throws"
            /\ Settle(Reject("search"))
            /\ mpc' = "over"
            /\ merr' = TRUE
            /\ UNCHANGED <<uids, arriving>>
       ELSE IF Len(results) = 0
       THEN /\ f = "throws"
            /\ Settle(Resolve(<<>>))
            /\ mpc' = "over"
            /\ UNCHANGED <<merr, uids, arriving>>
       ELSE /\ StartFetch(IF mop = "fetchEmails"
                          THEN FetchSelection(results, limit, offset)
                          ELSE SearchSelection(results, limit), f)
            /\ UNCHANGED <<mres, merr>>
    /\ params' = NoParams
    /\ criteria' = <<>>
    /\ UNCHANGED <<mop, limit, offset, emailId, results, parsing, failed, emails, fend>>
    /\ UNCHANGED <<vars, cvars, calvars, xvars>>

\* the fetch delivers message u: its 'attributes' handler starts simpleParser
MessageArrives(u) ==
    /\ UNCHANGED <<params, criteria>>
    /\ mpc = "fetch"
    /\ ~fend
    /\ u \in arriving
    /\ arriving' = arriving \ {u}
    /\ parsing' = parsing \cup {u}
    /\ UNCHANGED <<mpc, mop, limit, offset, emailId, results, uids, failed, emails,
                   fend, merr, mres>>
    /\ UNCHANGED <<vars, cvars, calvars, xvars>>

\* the rest of the 'attributes' handler of message u, after await simpleParser
ParseDone(u, parsed) ==
    /\ UNCHANGED <<params, criteria>>
    /\ mpc = "fetch"
    /\ u \in parsing
    /\ parsing' = parsing \ {u}
    /\ IF mop = "getEmail"
       THEN /\ Settle(IF parsed THEN Resolve(<<u>>) ELSE Reject("Failed to parse email"))
            /\ emails' = emails
            /\ failed' = (IF parsed THEN failed ELSE failed \cup {u})
       ELSE IF parsed
       THEN /\ emails' = Append(emails, u)
            /\ failed' = failed
            /\ IF Len(emails') = Len(uids)
               THEN Settle(Resolve(emails'))
               ELSE mres' = mres
       ELSE /\ emails' = emails
            /\ failed' = failed \cup {u}
            /\ IF Len(emails) = Len(uids) - 1
               THEN Settle(Resolve(emails))
               ELSE mres' = mres
    /\ UNCHANGED <<mpc, mop, limit, offset, emailId, results, uids, arriving, fend, merr>>
    /\ UNCHANGED <<vars, cvars, calvars, xvars>>

\* the 'error' event of the fetch
FetchError ==
    /\ UNCHANGED <<params, criteria>>
    /\ mpc = "fetch"
    /\ ~fend
    /\ Settle(Reject("fetch"))
    /\ fend' = TRUE
    /\ merr' = TRUE
    /\ arriving' = {}
    /\ UNCHANGED <<mpc, mop, limit, offset, emailId, results, uids, parsing, failed,
                   emails>>
    /\ UNCHANGED <<vars, cvars, calvars, xvars>>

\* the fetch has delivered what the server sent; the operations register no
\* handler for its 'end' event
FetchEnd ==
    /\ UNCHANGED <<params, criteria>>
    /\ mpc = "fetch"
    /\ ~fend
    /\ arriving = {}
    /\ fend' = TRUE
    /\ UNCHANGED <<mpc, mop, limit, offset, emailId, results, uids, arriving, parsing,
                   failed, emails, merr, mres>>
    /\ UNCHANGED <<vars, cvars, calvars, xvars>>

\* no callback of the operation is outstanding
Quiet ==
    \/ mpc \in {"over", "thrown"}
    \/ mpc = "fetch" /\ fend /\ parsing = {}

\* the caller has the outcome and every callback has run: the next call
MailReturn ==
    /\ mres # None
    /\ Quiet
    /\ mpc' = "idle"
    /\ mop' = "none"
    /\ limit' = 0
    /\ offset' = 0
    /\ emailId' = 0
    /\ results' = <<>>
    /\ uids' = <<>>
    /\ arriving' = {}
    /\ parsing' = {}
    /\ failed' = {}
    /\ emails' = <<>>
    /\ fend' = FALSE
    /\ merr' = FALSE
    /\ mres' = None
    /\ params' = NoParams
    /\ criteria' = <<>>
    /\ reused' = FALSE
    /\ issued' = FALSE
    /\ cfail' = ""
    /\ boxes' = <<>>
    /\ UNCHANGED <<connected, imap, link, nconn, clean, live, called>>
    /\ UNCHANGED <<vars, calvars, xvars>>

MailInit == Init /\ disk = NoFile

MailNext ==
    \/ \E n \in 0..MaxN, l \in 0..MaxLimit, o \in 0..MaxOffset, p \in FetchParamsInputs :
          CallFetchEmails(n, l, o, p)
    \/ \E n \in 0..MaxN, l \in 0..MaxLimit, p \in SearchParamsInputs :
          CallSearchEmails(n, l, p)
    \/ \E n \in 0..MaxN, id \in EmailIds : CallGetEmail(n, id)
    \/ CallListMailboxes
    \/ CallConnect
    \/ \E ok \in BOOLEAN : ConnectToken(ok)
    \/ ConnReady
    \/ \E e \in ConnectErrors : ConnError(e)
    \/ ConnEnd
    \/ Disconnect
    \/ DisconnectEnd
    \/ \E err \in BOOLEAN, h \in Hierarchies : GetBoxes(err, h)
    \/ \E err \in BOOLEAN, f \in FetchOfNothing : OpenBox(err, f)
    \/ \E err \in BOOLEAN, f \in FetchOfNothing : SearchDone(err, f)
    \/ \E u \in arriving : MessageArrives(u)
    \/ \E u \in parsing, parsed \in BOOLEAN : ParseDone(u, parsed)
    \/ FetchError
    \/ FetchEnd
    \/ MailReturn

MailSpec == MailInit /\ [][MailNext]_allvars

\* ====================================================== YahooCalDAVClient
\* The calendar client, one operation at a time.  getAccessToken is taken
\* here by its outcomes: an error, or a token that is outside the margin
\* when it is returned.  The client made by createDAVClient keeps the
\* credentials it was given and sends them with every request.

Hour == 3600 * 1000

\* the time a returned token has left
TokenLifetimes == {MarginMs + 1, Hour}

CalendarIds == {"a", "b", "c"}

\* what fetchCalendars gives: calendars with distinct identifiers, in order
CalendarLists ==
    {<<>>}
    \cup {<<x>> : x \in CalendarIds}
    \cup {l \in CalendarIds \X CalendarIds : l[1] # l[2]}
    \cup {<<"a", "b", "c">>, <<"a", "c", "b">>}

\* the calendarId argument of fetchEvents
CalendarIdInputs == {Undefined, Str(""), Str("a"), Str("z")}

\* ------------------------------------------------------ iCalendar text
\* A string that the code takes apart is a sequence of characters.
DigitValue(ch) ==
    CASE ch = "0" -> 0 [] ch = "1" -> 1 [] ch = "2" -> 2 [] ch = "3" -> 3
      [] ch = "4" -> 4 [] ch = "5" -> 5 [] ch = "6" -> 6 [] ch = "7" -> 7
      [] ch = "8" -> 8 [] ch = "9" -> 9 [] OTHER -> 0 - 1

IsDigit(ch) == DigitValue(ch) >= 0

\* the characters of the string literals of the model
Chars(str) ==
    CASE str = "19991231T235959-05" ->
           <<"1", "9", "9", "9", "1", "2", "3", "1", "T", "2", "3", "5", "9", "5", "9", "-", "0", "5">>
      [] str = "1x2y3z4w5v6u7t8s9r" ->
           <<"1", "x", "2", "y", "3", "z", "4", "w", "5", "v", "6", "u", "7", "t", "8", "s", "9", "r">>
      [] str = "2024-01-01" ->
           <<"2", "0", "2", "4", "-", "0", "1", "-", "0", "1">>
      [] str = "2024-01-15T09:30:0" ->
           <<"2", "0", "2", "4", "-", "0", "1", "-", "1", "5", "T", "0", "9", ":", "3", "0", ":", "0">>
      [] str = "2024-01-31" ->
           <<"2", "0", "2", "4", "-", "0", "1", "-", "3", "1">>
      [] str = "20240115T093000Z+0" ->
           <<"2", "0", "2", "4", "0", "1", "1", "5", "T", "0", "9", "3", "0", "0", "0", "Z", "+", "0">>
      [] str = "20241201 1200 00 Z" ->
           <<"2", "0", "2", "4", "1", "2", "0", "1", " ", "1", "2", "0", "0", " ", "0", "0", " ", "Z">>
      [] str = "31/01/2024" ->
           <<"3", "1", "/", "0", "1", "/", "2", "0", "2", "4">>
      [] str = "BEGIN:VEVENT" ->
           <<"B", "E", "G", "I", "N", ":", "V", "E", "V", "E", "N", "T">>
      [] str = "DESCRIPTION:" ->
           <<"D", "E", "S", "C", "R", "I", "P", "T", "I", "O", "N", ":">>
      [] str = "DTEND" ->
           <<"D", "T", "E", "N", "D">>
      [] str = "DTEND:20240115T103000Z" ->
           <<"D", "T", "E", "N", "D", ":", "2", "0", "2", "4", "0", "1", "1", "5", "T", "1", "0", "3", "0", "0", "0", "Z">>
      [] str = "DTEND:tomorrow" ->
           <<"D", "T", "E", "N", "D", ":", "t", "o", "m", "o", "r", "r", "o", "w">>
      [] str = "DTSTART" ->
           <<"D", "T", "S", "T", "A", "R", "T">>
      [] str = "DTSTART:2024-01-15" ->
           <<"D", "T", "S", "T", "A", "R", "T", ":", "2", "0", "2", "4", "-", "0", "1", "-", "1", "5">>
      [] str = "DTSTART;TZID=Europe/Paris:20240115T093000" ->
           <<"D", "T", "S", "T", "A", "R", "T", ";", "T", "Z", "I", "D", "=", "E", "u", "r", "o", "p", "e", "/", "P", "a", "r", "i", "s", ":", "2", "0", "2", "4", "0", "1", "1", "5", "T", "0", "9", "3", "0", "0", "0">>
      [] str = "END:VEVENT" ->
           <<"E", "N", "D", ":", "V", "E", "V", "E", "N", "T">>
      [] str = "LOCATION:" ->
           <<"L", "O", "C", "A", "T", "I", "O", "N", ":">>
      [] str = "STATUS:" ->
           <<"S", "T", "A", "T", "U", "S", ":">>
      [] str = "SUMMARY:" ->
           <<"S", "U", "M", "M", "A", "R", "Y", ":">>
      [] str = "SUMMARY: Lunch " ->
           <<"S", "U", "M", "M", "A", "R", "Y", ":", " ", "L", "u", "n", "c", "h", " ">>
      [] str = "UID:" ->
           <<"U", "I", "D", ":">>
      [] str = "next week" ->
           <<"n", "e", "x", "t", " ", "w", "e", "e", "k">>
      [] str = "tomorrow at noon.." ->
           <<"t", "o", "m", "o", "r", "r", "o", "w", " ", "a", "t", " ", "n", "o", "o", "n", ".", ".">>

\* str.substring(a, b) and str.substring(a)
substring(str, a, b) == SubSeq(str, a + 1, IF b < Len(str) THEN b ELSE Len(str))
substringFrom(str, a) == SubSeq(str, a + 1, Len(str))

RECURSIVE SkipSpaces(_)
SkipSpaces(str) ==
    IF str # <<>> /\ Head(str) = " " THEN SkipSpaces(Tail(str)) ELSE str

RECURSIVE LeadingDigits(_)
LeadingDigits(str) ==
    IF str = <<>> \/ ~IsDigit(Head(str)) THEN <<>>
    ELSE <<Head(str)>> \o LeadingDigits(Tail(str))

RECURSIVE DecimalValue(_)
DecimalValue(str) ==
    IF str = <<>> THEN 0
    ELSE 10 * DecimalValue(SubSeq(str, 1, Len(str) - 1)) + DigitValue(str[Len(str)])

\* parseInt(str) without a radix, for strings that do not begin with 0x:
\* leading blanks, a sign, then the digits up to the first other character
parseInt(str) ==
    LET s1 == SkipSpaces(str)
        signed == s1 # <<>> /\ Head(s1) \in {"-", "+"}
        digits == LeadingDigits(IF signed THEN Tail(s1) ELSE s1)
    IN  IF digits = <<>> THEN NaN
        ELSE IF signed /\ Head(s1) = "-" THEN Num(0 - DecimalValue(digits))
        ELSE Num(DecimalValue(digits))

\* str.trim()
RECURSIVE trimEnd(_)
trimEnd(str) ==
    IF str # <<>> /\ str[Len(str)] = " " THEN trimEnd(SubSeq(str, 1, Len(str) - 1)) ELSE str
trim(str) == trimEnd(SkipSpaces(str))

\* the characters as one string
RECURSIVE Join(_)
Join(str) == IF str = <<>> THEN "" ELSE Head(str) \o Join(Tail(str))

startsWith(line, prefix) ==
    Len(line) >= Len(prefix) /\ SubSeq(line, 1, Len(prefix)) = prefix

includes(line, ch) == \E i \in 1..Len(line) : line[i] = ch

\* the text before the first ch, or all of it
RECURSIVE Before(_, _)
Before(str, ch) ==
    IF str = <<>> \/ Head(str) = ch THEN <<>>
    ELSE <<Head(str)>> \o Before(Tail(str), ch)

\* line.split(':')[1] of a line that includes ':'
SplitSecond(line) ==
    Before(substringFrom(line, Len(Before(line, ":")) + 1), ":")

\* what a throw leaves in place of a value
Thrown == [t |-> "thrown"]

\* new Date(year, month, day, hours, minutes, seconds): an Invalid Date if
\* an argument is NaN; a year from 0 to 99 is taken as 1900 + year.  The
\* date is kept as its fields, without carrying month 12 or day 32 over.
InvalidDate == [t |-> "object", valid |-> FALSE, year |-> 0, month |-> 0, day |-> 0,
                hours |-> 0, minutes |-> 0, seconds |-> 0]

NewDate(y, mo, d, h, mi, sec) ==
    IF \E v \in {y, mo, d, h, mi, sec} : v.t = "NaN"
    THEN InvalidDate
    ELSE [t |-> "object", valid |-> TRUE,
          year |-> (IF y.n >= 0 /\ y.n <= 99 THEN 1900 + y.n ELSE y.n),
          month |-> mo.n, day |-> d.n,
          hours |-> h.n, minutes |-> mi.n, seconds |-> sec.n]

\* faulty variant: a date-time of exactly 15 characters
parseICalendarDateOfExactLengths(dateStr) ==
    IF Len(dateStr) = 8
    THEN NewDate(parseInt(substring(dateStr, 0, 4)),
                 JsSub(parseInt(substring(dateStr, 4, 6)), Num(1)),
                 parseInt(substring(dateStr, 6, 8)), Num(0), Num(0), Num(0))
    ELSE IF Len(dateStr) = 15
    THEN NewDate(parseInt(substring(dateStr, 0, 4)),
                 JsSub(parseInt(substring(dateStr, 4, 6)), Num(1)),
                 parseInt(substring(dateStr, 6, 8)),
                 parseInt(substring(dateStr, 9, 11)),
                 parseInt(substring(dateStr, 11, 13)),
                 parseInt(substring(dateStr, 13, 15)))
    ELSE Thrown

\* parseICalendarDate
parseICalendarDate(dateStr) ==
    IF Len(dateStr) = 8
    THEN NewDate(parseInt(substring(dateStr, 0, 4)),
                 JsSub(parseInt(substring(dateStr, 4, 6)), Num(1)),
                 parseInt(substring(dateStr, 6, 8)), Num(0), Num(0), Num(0))
    ELSE IF Len(dateStr) >= 15
    THEN NewDate(parseInt(substring(dateStr, 0, 4)),
                 JsSub(parseInt(substring(dateStr, 4, 6)), Num(1)),
                 parseInt(substring(dateStr, 6, 8)),
                 parseInt(substring(dateStr, 9, 11)),
                 parseInt(substring(dateStr, 11, 13)),
                 parseInt(substring(dateStr, 13, 15)))
    ELSE Thrown

\* let event = { calendarId, status: 'CONFIRMED' }
NewEvent(calendarId) ==
    [t |-> "object", calendarId |-> calendarId, status |-> Str("CONFIRMED"),
     id |-> Undefined, summary |-> Undefined, description |-> Undefined,
     location |-> Undefined, start |-> Undefined, end |-> Undefined]

\* line.includes(':') ? line.split(':')[1] : ''
DateText(line) == IF includes(line, ":") THEN SplitSecond(line) ELSE <<>>

\* one turn of the loop over the lines: the event, or a throw
ParseLine(event, line) ==
    IF startsWith(line, Chars("SUMMARY:"))
    THEN [event EXCEPT !.summary = Str(Join(trim(substringFrom(line, 8))))]
    ELSE IF startsWith(line, Chars("DESCRIPTION:"))
    THEN [event EXCEPT !.description = Str(Join(trim(substringFrom(line, 12))))]
    ELSE IF startsWith(line, Chars("DTSTART"))
    THEN LET dt == parseICalendarDate(DateText(line))
         IN  IF dt = Thrown THEN Thrown ELSE [event EXCEPT !.start = dt]
    ELSE IF startsWith(line, Chars("DTEND"))
    THEN LET dt == parseICalendarDate(DateText(line))
         IN  IF dt = Thrown THEN Thrown ELSE [event EXCEPT !.end = dt]
    ELSE IF startsWith(line, Chars("LOCATION:"))
    THEN [event EXCEPT !.location = Str(Join(trim(substringFrom(line, 9))))]
    ELSE IF startsWith(line, Chars("UID:"))
    THEN [event EXCEPT !.id = Str(Join(trim(substringFrom(line, 4))))]
    ELSE IF startsWith(line, Chars("STATUS:"))
    THEN [event EXCEPT !.status = Str(Join(trim(substringFrom(line, 7))))]
    ELSE event

RECURSIVE ParseLines(_, _)
ParseLines(lines, event) ==
    IF lines = <<>> THEN event
    ELSE LET e == ParseLine(event, Head(lines))
         IN  IF e = Thrown THEN Thrown ELSE ParseLines(Tail(lines), e)

\* faulty variant: parseICalendar lets the error out
OnParseErrorRethrown == Thrown

\* the catch of parseICalendar: log and return null
OnParseError == Null

\* parseICalendar: icsData is given as its lines (icsData.split(/\r?\n/))
parseICalendar(icsData, calendarId) ==
    LET event == ParseLines(icsData, NewEvent(calendarId))
    IN  IF event = Thrown THEN OnParseError
        ELSE IF ~Truthy(event.id) \/ ~Truthy(event.summary)
                \/ ~Truthy(event.start) \/ ~Truthy(event.end)
        THEN Null
        ELSE event

\* the data of calendar objects, line by line
GoodEvent(id) ==
    <<Chars("BEGIN:VEVENT"), Chars("UID:") \o <<id>>, Chars("SUMMARY: Lunch "),
      Chars("DTSTART;TZID=Europe/Paris:20240115T093000"),
      Chars("DTEND:20240115T103000Z"), Chars("END:VEVENT")>>

EventWithoutSummary(id) ==
    <<Chars("BEGIN:VEVENT"), Chars("UID:") \o <<id>>,
      Chars("DTSTART;TZID=Europe/Paris:20240115T093000"),
      Chars("DTEND:20240115T103000Z"), Chars("END:VEVENT")>>

\* a DTSTART value of 10 characters
EventWithDateOfLength10(id) ==
    <<Chars("BEGIN:VEVENT"), Chars("UID:") \o <<id>>, Chars("SUMMARY: Lunch "),
      Chars("DTSTART:2024-01-15"),
      Chars("DTEND:20240115T103000Z"), Chars("END:VEVENT")>>

\* a DTEND value of 8 characters that are no digits
EventWithDateNotDigits(id) ==
    <<Chars("BEGIN:VEVENT"), Chars("UID:") \o <<id>>, Chars("SUMMARY: Lunch "),
      Chars("DTSTART;TZID=Europe/Paris:20240115T093000"),
      Chars("DTEND:tomorrow"), Chars("END:VEVENT")>>

\* what one fetchCalendarObjects gives: an error or a list of objects
QueryFailed == [ok |-> FALSE, objects |-> <<>>]
Objects(l) == [ok |-> TRUE, objects |-> l]
QueryOutcomes ==
    {QueryFailed, Objects(<<>>),
     Objects(<<EventWithoutSummary("0"), GoodEvent("1")>>),
     Objects(<<EventWithDateOfLength10("2"), GoodEvent("3"), EventWithDateNotDigits("4")>>)}

\* the inner loop of fetchEvents: the parsed events of one calendar; an
\* error that leaves the loop is caught by the inner catch of fetchEvents
RECURSIVE ParsedEvents(_, _)
ParsedEvents(objects, calendarId) ==
    IF objects = <<>>
    THEN <<>>
    ELSE LET parsedEvent == parseICalendar(Head(objects), calendarId)
         IN  IF parsedEvent = Thrown THEN <<>>
             ELSE (IF parsedEvent # Null THEN <<parsedEvent>> ELSE <<>>)
                  \o ParsedEvents(Tail(objects), calendarId)

\* allCalendars.find((cal) => cal.id === calendarId)
RECURSIVE find(_, _)
find(list, id) ==
    IF list = <<>> THEN Undefined
    ELSE IF Head(list) = id THEN Str(Head(list))
    ELSE find(Tail(list), id)

\* faulty variant: every calendar when the identifier matches none
SelectTargetsAllWhenMissing(calendarId, list) ==
    IF Truthy(calendarId) /\ Truthy(find(list, calendarId.s))
    THEN [found |-> TRUE, calendars |-> <<find(list, calendarId.s).s>>]
    ELSE [found |-> TRUE, calendars |-> list]

\* fetchEvents: the calendars to query, or calendar not found
SelectTargets(calendarId, list) ==
    IF Truthy(calendarId)
    THEN LET calendar == find(list, calendarId.s)
         IN  IF ~Truthy(calendar)
             THEN [found |-> FALSE, calendars |-> <<>>]
             ELSE [found |-> TRUE, calendars |-> <<calendar.s>>]
    ELSE [found |-> TRUE, calendars |-> list]

\* faulty variant: the inner catch throws again
AfterQueryErrorThrows == "throw"

\* the inner catch of fetchEvents logs and goes on with the next calendar
AfterQueryError == "continue"

\* a request the client sends, with the credentials it holds
Request(k, calendar, cl) ==
    [kind |-> k, calendar |-> calendar, at |-> now, session |-> cl.session,
     obtained |-> cl.obtained, expiresAt |-> cl.expiresAt]

CalResolve(v) == [ok |-> TRUE, val |-> v, err |-> ""]
CalReject(e) == [ok |-> FALSE, val |-> <<>>, err |-> e]

\* the outer catch of fetchEvents and the catch of listCalendars
FetchEventsError(e) == "Failed to fetch calendar events: Error: " \o e
ListCalendarsError(e) == "Failed to list calendars: Error: " \o e
InitializeError(e) == "Failed to initialize CalDAV client: Error: " \o e

\* faulty variant: a failed discovery counts as no calendar
DiscoveryFailureSwallowed(name) == CalResolve(<<>>)

\* fetchCalendars rejects: the catch of listCalendars throws, and in
\* fetchEvents the outer catch throws what it caught, wrapped
DiscoveryFailure(name) ==
    CalReject(IF name = "listCalendars"
              THEN ListCalendarsError("PROPFIND")
              ELSE FetchEventsError(ListCalendarsError("PROPFIND")))

\* new Date(string) for the strings of DateArguments: the date of a text
\* YYYY-MM-DD, an Invalid Date for a text of another form
DateFromString(str) ==
    IF /\ Len(str) = 10
       /\ str[5] = "-" /\ str[8] = "-"
       /\ \A i \in {1, 2, 3, 4, 6, 7, 9, 10} : IsDigit(str[i])
    THEN NewDate(parseInt(substring(str, 0, 4)),
                 JsSub(parseInt(substring(str, 5, 7)), Num(1)),
                 parseInt(substring(str, 8, 10)), Num(0), Num(0), Num(0))
    ELSE InvalidDate

\* startDate and endDate of a request
DateArguments ==
    {<<Chars("2024-01-01"), Chars("2024-01-31")>>,
     <<Chars("next week"), Chars("2024-01-31")>>,
     <<Chars("2024-01-01"), Chars("31/01/2024")>>}

notnow == <<tokens, disk, pc, kind, loaded, req, start, dec, posts, resp,
            res, dirty, nposts, nops, seqOK, quietPosts, cleared>>

\* a call of initialize, listCalendars or fetchEvents, up to its first await
CalCall(name, id, startDate, endDate) ==
    /\ cpc = "idle"
    /\ cops < MaxCalOps
    /\ cops' = cops + 1
    /\ cop' = [name |-> name, calendarId |-> id, had |-> client,
               startDate |-> startDate, endDate |-> endDate]
    /\ IF name = "initialize" \/ ~(client # None)
       THEN /\ cpc' = "init"
            /\ requests' = requests
       ELSE /\ cpc' = "list"
            /\ requests' = Append(requests, Request("fetchCalendars", "", client))
    /\ UNCHANGED <<client, cals, targets, outcomes, allEvents, cres>>
    /\ UNCHANGED <<vars, mvars, xvars>>

CallInitialize == CalCall("initialize", Undefined, Undefined, Undefined)

CallListCalendars == CalCall("listCalendars", Undefined, Undefined, Undefined)

\* the handler of yahoo_calendar_fetch_events builds the two dates from the
\* strings of the request and calls fetchEvents
CallFetchEvents(id, startArg, endArg) ==
    CalCall("fetchEvents", id, DateFromString(startArg), DateFromString(endArg))

\* initialize after await this.oauth2.getAccessToken(): createDAVClient, or
\* the catch; then the operation that called it goes on to fetchCalendars
InitToken(ok, life) ==
    /\ cpc = "init"
    /\ IF ok
       THEN /\ client' = [session |-> (IF client = None THEN 1 ELSE client.session + 1),
                          obtained |-> now, expiresAt |-> now + life]
            /\ IF cop.name = "initialize"
               THEN /\ cres' = CalResolve(<<>>)
                    /\ cpc' = "over"
                    /\ requests' = requests
               ELSE /\ cpc' = "list"
                    /\ cres' = cres
                    /\ requests' = Append(requests, Request("fetchCalendars", "", client'))
       ELSE /\ life = Hour
            /\ cres' = CalReject(InitializeError("token"))
            /\ cpc' = "over"
            /\ UNCHANGED <<client, requests>>
    /\ UNCHANGED <<cop, cals, targets, outcomes, allEvents, cops>>
    /\ UNCHANGED <<vars, mvars, xvars>>

\* listCalendars after await this.client.fetchCalendars(), and for
\* fetchEvents the choice of the calendars and the first object query
ListDone(ok, list) ==
    /\ cpc = "list"
    /\ IF ~ok
       THEN /\ list = <<>>
            /\ cres' = DiscoveryFailure(cop.name)
            /\ cpc' = "over"
            /\ UNCHANGED <<cals, targets, requests>>
       ELSE /\ cals' = [known |-> TRUE, list |-> list]
            /\ IF cop.name = "listCalendars"
               THEN /\ cres' = CalResolve(list)
                    /\ cpc' = "over"
                    /\ UNCHANGED <<targets, requests>>
               ELSE LET sel == SelectTargets(cop.calendarId, list)
                    IN  IF ~sel.found
                        THEN /\ cres' = CalReject(FetchEventsError(
                                            "Calendar not found: " \o cop.calendarId.s))
                             /\ cpc' = "over"
                             /\ UNCHANGED <<targets, requests>>
                        ELSE /\ targets' = sel.calendars
                             /\ IF sel.calendars = <<>>
                                THEN /\ cres' = CalResolve(<<>>)
                                     /\ cpc' = "over"
                                     /\ requests' = requests
                                ELSE /\ cres' = cres
                                     /\ cpc' = "query"
                                     /\ requests' = Append(requests,
                                            Request("fetchCalendarObjects", sel.calendars[1], client))
    /\ UNCHANGED <<client, cop, outcomes, allEvents, cops>>
    /\ UNCHANGED <<vars, mvars, xvars>>

\* fetchEvents after await this.client.fetchCalendarObjects(...): the parse
\* loop or the inner catch, then the next calendar or return allEvents
QueryDone(out) ==
    /\ cpc = "query"
    /\ outcomes' = Append(outcomes, out)
    /\ IF ~out.ok /\ AfterQueryError # "continue"
       THEN /\ cres' = CalReject(FetchEventsError("REPORT"))
            /\ cpc' = "over"
            /\ UNCHANGED <<allEvents, requests>>
       ELSE /\ allEvents' = (IF out.ok
                             THEN allEvents \o ParsedEvents(out.objects, targets[Len(outcomes')])
                             ELSE allEvents)
            /\ IF Len(outcomes') = Len(targets)
               THEN /\ cres' = CalResolve(allEvents')
                    /\ cpc' = "over"
                    /\ requests' = requests
               ELSE /\ cres' = cres
                    /\ cpc' = "query"
                    /\ requests' = Append(requests,
                           Request("fetchCalendarObjects", targets[Len(outcomes') + 1], client))
    /\ UNCHANGED <<client, cop, cals, targets, cops>>
    /\ UNCHANGED <<vars, mvars, xvars>>

\* the caller has the outcome: the next call
CalReturn ==
    /\ cpc = "over"
    /\ cpc' = "idle"
    /\ cop' = [name |-> "none", calendarId |-> Undefined, had |-> None,
               startDate |-> Undefined, endDate |-> Undefined]
    /\ cals' = [known |-> FALSE, list |-> <<>>]
    /\ targets' = <<>>
    /\ outcomes' = <<>>
    /\ allEvents' = <<>>
    /\ requests' = <<>>
    /\ cres' = None
    /\ UNCHANGED <<client, cops>>
    /\ UNCHANGED <<vars, mvars, xvars>>

\* time passes between two operations
CalTick ==
    /\ cpc = "idle"
    /\ now + Hour <= StartTime + MaxHours * Hour
    /\ now' = now + Hour
    /\ UNCHANGED notnow
    /\ UNCHANGED <<mvars, calvars, xvars>>

CalInit == Init /\ disk = NoFile

CalNext ==
    \/ CallInitialize
    \/ CallListCalendars
    \/ \E id \in CalendarIdInputs : \E range \in DateArguments :
          CallFetchEvents(id, range[1], range[2])
    \/ \E ok \in BOOLEAN, life \in TokenLifetimes : InitToken(ok, life)
    \/ \E ok \in BOOLEAN, list \in CalendarLists : ListDone(ok, list)
    \/ \E out \in QueryOutcomes : QueryDone(out)
    \/ CalReturn
    \/ CalTick

CalSpec == CalInit /\ [][CalNext]_allvars

\* ===================================================== parseICalendarDate
\* parseICalendarDate on its own: a value, then the call.
\* values of every length from 0 to 18: date-times with a suffix, with
\* separators, and text that is no date
DateStrings ==
    UNION {{SubSeq(Chars(text), 1, k) : k \in 0..18} :
           text \in {"20240115T093000Z+0", "19991231T235959-05", "2024-01-15T09:30:0",
                     "tomorrow at noon..", "20241201 1200 00 Z", "1x2y3z4w5v6u7t8s9r"}}

\* the value is chosen
ChooseDate(str) ==
    /\ dateArg = <<>>
    /\ dateRes = None
    /\ str # <<>>
    /\ dateArg' = str
    /\ dateRes' = None
    /\ UNCHANGED <<vars, mvars, calvars, svars, hvars>>

\* parseICalendarDate(dateStr)
ParseDate ==
    /\ dateArg # <<>>
    /\ dateRes = None
    /\ dateRes' = parseICalendarDate(dateArg)
    /\ dateArg' = dateArg
    /\ UNCHANGED <<vars, mvars, calvars, svars, hvars>>

DateNext ==
    \/ \E str \in DateStrings : ChooseDate(str)
    \/ ParseDate

DateSpec == CalInit /\ [][DateNext]_allvars

\* ================================================== the bytes of a message
\* The message handlers of fetchEmails after this.imap.fetch: for every
\* message a buffer, a 'data' handler on its body stream and an
\* 'attributes' handler.  The order in which the library emits the events
\* of a message is not fixed by the code, so every order is taken.
\* fetch.on('message') for each message of the fetch: let emailBuffer =
\* Buffer.alloc(0) and the registration of the handlers
FetchMessages(c) ==
    /\ chunks = <<>>
    /\ chunks' = c
    /\ sent' = [m \in 1..Len(c) |-> 0]
    /\ emailBuffer' = [m \in 1..Len(c) |-> <<>>]
    /\ parserInput' = [m \in 1..Len(c) |-> [given |-> FALSE, bytes |-> <<>>]]
    /\ parsedEmails' = <<>>
    /\ UNCHANGED <<vars, mvars, calvars, dvars, hvars>>

\* stream.on('data'): emailBuffer = Buffer.concat([emailBuffer, chunk])
BodyData(m) ==
    /\ sent[m] < chunks[m]
    /\ sent' = [sent EXCEPT ![m] = sent[m] + 1]
    /\ emailBuffer' = [emailBuffer EXCEPT ![m] = Append(emailBuffer[m], <<m, sent[m] + 1>>)]
    /\ UNCHANGED <<chunks, parserInput, parsedEmails>>
    /\ UNCHANGED <<vars, mvars, calvars, dvars, hvars>>

\* msg.once('attributes'): simpleParser(emailBuffer) is called with the
\* buffer as it is now
Attributes(m) ==
    /\ ~parserInput[m].given
    /\ parserInput' = [parserInput EXCEPT ![m] = [given |-> TRUE, bytes |-> emailBuffer[m]]]
    /\ UNCHANGED <<chunks, sent, emailBuffer, parsedEmails>>
    /\ UNCHANGED <<vars, mvars, calvars, dvars, hvars>>

\* after await simpleParser(emailBuffer): emails.push({...})
Parsed(m) ==
    /\ parserInput[m].given
    /\ \A i \in 1..Len(parsedEmails) : parsedEmails[i].uid # m
    /\ parsedEmails' = Append(parsedEmails, [uid |-> m, bytes |-> parserInput[m].bytes])
    /\ UNCHANGED <<chunks, sent, emailBuffer, parserInput>>
    /\ UNCHANGED <<vars, mvars, calvars, dvars, hvars>>

StreamNext ==
    \/ \E c \in [1..NMessages -> 1..MaxChunks] : FetchMessages(c)
    \/ \E m \in 1..Len(chunks) : BodyData(m)
    \/ \E m \in 1..Len(chunks) : Attributes(m)
    \/ \E m \in 1..Len(chunks) : Parsed(m)

StreamSpec == MailInit /\ [][StreamNext]_allvars

\* ============================================= requests on the shared client
\* POST /mcp of the HTTP server: every tools/call request runs executeTool
\* on the one client of the process, which is connected.  The connection
\* takes the commands it is given one at a time, in the order given, and
\* calls the callback of a command when it has completed.
Folders == {"INBOX", "Sent"}

\* the tool dispatch for yahoo_mail_fetch_emails: client.fetchEmails with
\* the folder of the request, up to this.imap.openBox(folder, ...)
executeTool(r, f) ==
    /\ rpc' = [rpc EXCEPT ![r] = "openBox"]
    /\ rfolder' = [rfolder EXCEPT ![r] = f]
    /\ queue' = Append(queue, [r |-> r, name |-> "openBox"])
    /\ UNCHANGED <<selected, fetchedIn>>

\* req.on('end') of a tools/call request
PostToolsCall(r, f) ==
    /\ rpc[r] = "none"
    /\ executeTool(r, f)
    /\ UNCHANGED <<vars, mvars, calvars, dvars, svars>>

\* the command at the head completes and its callback runs: openBox selects
\* the folder and its callback calls search; the callback of search calls
\* fetch; the messages of fetch are those of the selected folder
CommandCompletes ==
    /\ queue # <<>>
    /\ LET r == Head(queue).r
           name == Head(queue).name
       IN  /\ selected' = (IF name = "openBox" THEN rfolder[r] ELSE selected)
           /\ fetchedIn' = (IF name = "fetch"
                            THEN [fetchedIn EXCEPT ![r] = selected]
                            ELSE fetchedIn)
           /\ rpc' = [rpc EXCEPT ![r] = CASE name = "openBox" -> "search"
                                          [] name = "search" -> "fetch"
                                          [] name = "fetch" -> "done"]
           /\ queue' = (IF name = "fetch"
                        THEN Tail(queue)
                        ELSE Append(Tail(queue),
                                    [r |-> r, name |-> (IF name = "openBox" THEN "search"
                                                                  ELSE "fetch")]))
    /\ UNCHANGED rfolder
    /\ UNCHANGED <<vars, mvars, calvars, dvars, svars>>

ServerNext ==
    \/ \E r \in 1..NRequests, f \in Folders : PostToolsCall(r, f)
    \/ CommandCompletes

ServerSpec == MailInit /\ [][ServerNext]_allvars

\* ================================================================== claims
Done(c)      == pc[c] = "done"
TokenCall(c) == kind[c] \in TokenKinds

\* a string that is present and not empty
NonEmpty(v) == v.t = "string" /\ v.s # ""

\* expiry E is at most / more than the margin after time T
InsideMargin(E, T)  == E.t = "number" /\ E.n - T <= MarginMs
OutsideMargin(E, T) == E.t = "number" /\ E.n - T > MarginMs

\* C1: whenever getAccessToken returns a token at time T, the credential set
\* it belongs to expires at least 5 minutes after T, also right after a refresh
\* and whatever expires_in the provider sent (stated for calls during which no
\* other operation wrote the credential set)
C1_ReturnedTokenOutsideMargin ==
    \A c \in Callers :
        (Done(c) /\ TokenCall(c) /\ res[c].ok /\ ~dirty[c])
        => /\ res[c].set.expiresAt.t = "number"
           /\ res[c].set.expiresAt.n >= res[c].at + MarginMs

\* C2: concurrent getAccessToken calls that see an expiring token coalesce: at
\* most one refresh POST is in flight at any time
C2_OneRefreshInFlight ==
    Cardinality({c \in Callers : TokenCall(c) /\ pc[c] = "rf_await_post"}) <= 1

\* C3: sequential getAccessToken calls with no time elapsing between them and
\* only successful provider responses make at most one refresh exchange
C3_OneRefreshWithoutElapsedTime ==
    seqOK => quietPosts <= 1

\* a step in which call c ends
Ends(c) == pc[c] # "done" /\ pc'[c] = "done"

\* C4: the margin rule.  With cached expiry E and time T: if E - T <= 5 minutes
\* (boundary included) one refresh exchange is completed before the call
\* returns and the token of its response is returned; if E - T > 5 minutes no
\* POST is made, the cached set (the one the call loaded, if none was cached
\* when it started) and the disk are left as they are and the cached token is
\* returned
C4_MarginRule ==
    [][\A c \in Callers :
        (Ends(c) /\ TokenCall(c)' /\ res'[c].ok) =>
            IF InsideMargin(dec'[c].E, dec'[c].T)
            THEN /\ posts'[c] = 1
                 /\ resp'[c].status = "ok"
                 /\ res'[c].val = resp'[c].access_token
            ELSE IF OutsideMargin(dec'[c].E, dec'[c].T)
            THEN /\ posts'[c] = 0
                 /\ res'[c].val = dec'[c].tok
                 /\ tokens' = (IF start'[c].cached THEN tokens ELSE loaded[c])
                 /\ tokens'.accessToken = dec'[c].tok /\ tokens'.expiresAt = dec'[c].E
                 /\ disk' = disk
            ELSE TRUE]_vars

\* C4 witness: a call that found the expiry exactly 5 minutes ahead has
\* returned the token of the refresh it made
C4_Witness ==
    \E c \in Callers :
        /\ Done(c) /\ TokenCall(c) /\ res[c].ok
        /\ dec[c].E.t = "number" /\ dec[c].E.n - dec[c].T = MarginMs
        /\ posts[c] = 1 /\ NonEmpty(res[c].val) /\ res[c].val # dec[c].tok

\* a credential set with its four fields defined
Complete(tk) ==
    /\ IsSet(tk)
    /\ tk.accessToken.t = "string"
    /\ tk.refreshToken.t = "string"
    /\ tk.expiresAt.t = "number"
    /\ tk.tokenType.t = "string"

\* the response lacks a required field
LacksRequired(r) ==
    r.status = "ok" /\ (r.access_token.t = "undefined" \/ r.expires_in.t = "undefined")

\* C5: after a refreshAccessToken call the set in memory is a complete new set
\* or exactly the set held before; a failed POST or a response without
\* access_token or expires_in leaves memory and disk unchanged (stated for
\* calls during which no other operation wrote the credential set)
C5_RefreshAllOrNothing ==
    [][\A c \in Callers :
        (Ends(c) /\ pc[c] = "rf_await_post" /\ ~dirty[c]) =>
            /\ Complete(tokens') \/ tokens' = tokens
            /\ (resp'[c].status = "error" \/ LacksRequired(resp'[c]))
                   => (tokens' = tokens /\ disk' = disk)]_vars

\* a refresh was needed by call c
RefreshNeeded(c) ==
    \/ kind[c] = "refresh"
    \/ TokenCall(c) /\ dec[c] # None /\ InsideMargin(dec[c].E, dec[c].T)

\* call c held no refresh token when the refresh was needed
NoRefreshTokenHeld(c) == dec[c] = None \/ ~NonEmpty(dec[c].rt)

StructurallyValid(f) ==
    /\ f.f = "json"
    /\ NonEmpty(f.v.accessToken)
    /\ NonEmpty(f.v.refreshToken)
    /\ f.v.expiresAt.t = "number" /\ f.v.expiresAt.n # 0

\* C7: getAccessToken fails with the no-credentials error, without a POST,
\* exactly when no set is cached and the disk holds no structurally valid one;
\* with a valid set on disk and none cached it works on the set of the file
C7_NoCredentials ==
    \A c \in Callers :
        (Done(c) /\ TokenCall(c)) =>
            /\ (res[c].err = "NoTokens")
                 <=> (~start[c].cached /\ ~StructurallyValid(start[c].file))
            /\ res[c].err = "NoTokens" => (~res[c].ok /\ posts[c] = 0)
            /\ (~start[c].cached /\ StructurallyValid(start[c].file))
                 => /\ dec[c] # None
                    /\ dec[c].E = start[c].file.v.expiresAt
                    /\ dec[c].tok = start[c].file.v.accessToken

\* C7 witness: a call that found nothing cached and a file without a refresh
\* token has failed with the no-credentials error
C7_Witness ==
    \E c \in Callers :
        /\ Done(c) /\ TokenCall(c) /\ res[c].err = "NoTokens"
        /\ ~start[c].cached /\ start[c].file.f = "json"

\* C8: after every successful refresh the stored refresh token is the one of
\* the response when it carries one and the one held before the call when it
\* does not, and is never empty or undefined
C8_RefreshTokenKept ==
    \A c \in Callers :
        (Done(c) /\ posts[c] = 1 /\ kind[c] # "exchange" /\ res[c].ok) =>
            /\ tokens.refreshToken =
                  IF NonEmpty(resp[c].refresh_token) THEN resp[c].refresh_token
                  ELSE req[c].refresh_token
            /\ NonEmpty(tokens.refreshToken)

\* the statement of C8 for the refreshes during which no other operation wrote
\* the credential set
RefreshTokenKeptWithoutInterference ==
    \A c \in Callers :
        (Done(c) /\ posts[c] = 1 /\ kind[c] # "exchange" /\ res[c].ok /\ ~dirty[c]) =>
            /\ tokens.refreshToken =
                  IF NonEmpty(resp[c].refresh_token) THEN resp[c].refresh_token
                  ELSE req[c].refresh_token
            /\ NonEmpty(tokens.refreshToken)

\* C9: after a successful exchange or refresh the set on disk, the set in
\* memory and the set returned are equal, so that a new manager loading the
\* file gets that set (stated for calls during which no other operation wrote
\* the credential set)
C9_DiskEqualsMemory ==
    \A c \in Callers :
        (Done(c) /\ posts[c] = 1 /\ res[c].ok /\ ~dirty[c]) =>
            /\ res[c].set = tokens
            /\ disk.f = "json" /\ disk.v = tokens
            /\ loadTokens(disk) = tokens

\* C10: exchangeCodeForToken fails when the token endpoint answers with a
\* failure or with a response without access_token or expires_in, and then
\* memory and disk are what they were (stated for calls during which no other
\* operation wrote the credential set)
C10_ExchangeRejectsBadResponse ==
    [][\A c \in Callers :
        (Ends(c) /\ pc[c] = "ex_await_post" /\ ~dirty[c]
         /\ (resp'[c].status = "error" \/ LacksRequired(resp'[c])))
        => (~res'[c].ok /\ tokens' = tokens /\ disk' = disk)]_vars

\* C11: after a successful exchange or refresh performed at time T the stored
\* expiresAt is a number strictly greater than T, whatever expires_in the
\* accepted response carried (stated for calls during which no other operation
\* wrote the credential set)
C11_ExpiresAtInTheFuture ==
    \A c \in Callers :
        (Done(c) /\ posts[c] = 1 /\ res[c].ok /\ ~dirty[c]) =>
            /\ tokens.expiresAt.t = "number"
            /\ tokens.expiresAt.n > res[c].at

C13_SaveLoadRoundTrip ==
    \A c \in Callers :
        (Done(c) /\ posts[c] = 1 /\ res[c].ok /\ ~dirty[c]) =>
            /\ disk = saveTokens(res[c].set)
            /\ IsSet(loadTokens(disk))
            /\ loadTokens(disk) = res[c].set
            /\ saveTokens(loadTokens(disk)) = disk

\* ------------------------------------------------- mailbox operations
\* the first k elements of a sequence, and what is left without them
Take(q, k) == SubSeq(q, 1, IF k < Len(q) THEN k ELSE Len(q))
Drop(q, k) == SubSeq(q, (IF k < Len(q) THEN k ELSE Len(q)) + 1, Len(q))

\* the page asked for: newest first, without the off newest, at most lim
Page(found, lim, off) == Take(Drop(reverse(found), off), lim)

\* the operation has selected the identifiers to fetch
Selected == mpc \in {"fetch", "thrown"}

\* the operation is over for good: settled, or without any callback outstanding
Ended == mres # None \/ Quiet

\* the position of identifier x in sequence q
Pos(q, x) == CHOOSE k \in DOMAIN q : q[k] = x

\* C14: for N matching identifiers, limit L and offset O, fetchEmails selects
\* exactly the L most recent of the identifiers that remain after skipping the
\* O newest (all of them when fewer than L remain), newest first
C14_Pagination ==
    (mop = "fetchEmails" /\ Selected) => uids = Page(results, limit, offset)

\* the statement of C14 for the offsets that do not exceed N
PaginationWithinFolder ==
    (mop = "fetchEmails" /\ Selected /\ offset <= Len(results))
        => uids = Page(results, limit, offset)

\* C15: for every N, every limit and every offset O >= N, fetchEmails returns
\* an empty sequence (when the server reports no error)
C15_OffsetBeyondEnd ==
    (mop = "fetchEmails" /\ offset >= Len(results) /\ ~merr /\ Ended)
        => mres = Resolve(<<>>)

\* C16: for every N and every offset, fetchEmails with limit 0 completes and
\* returns an empty sequence (when the server reports no error)
C16_LimitZero ==
    (mop = "fetchEmails" /\ limit = 0 /\ ~merr /\ Ended)
        => mres = Resolve(<<>>)

\* C17: whichever messages fail to parse and in whatever order the parse
\* callbacks complete, once all of them have completed fetchEmails and
\* searchEmails have returned exactly the records of the messages that parsed
\* (for a non-empty selection and no error of the server)
C17_ParseFailuresSkipped ==
    (mop \in {"fetchEmails", "searchEmails"} /\ mpc = "fetch" /\ uids # <<>>
     /\ ~merr /\ Quiet)
        => /\ mres # None
           /\ mres.ok
           /\ Range(mres.val) = Range(uids) \ failed
           /\ Len(mres.val) = Cardinality(Range(uids) \ failed)

\* C18: the records returned by fetchEmails and searchEmails are in the order
\* of their identifiers in the newest-first selection, whatever the order in
\* which the parse callbacks completed
C18_NewestFirst ==
    (mop \in {"fetchEmails", "searchEmails"} /\ mres # None /\ mres.ok) =>
        \A i, j \in DOMAIN mres.val :
            i < j => Pos(uids, mres.val[i]) < Pos(uids, mres.val[j])

\* C19: getEmail with an identifier that is not in the folder ends with a
\* failure: it does not stay pending (when the server reports no error)
C19_MissingMessageFails ==
    (mop = "getEmail" /\ mpc = "fetch" /\ emailId \notin Range(results)
     /\ ~merr /\ Quiet)
        => (mres # None /\ ~mres.ok)

\* C20: searchEmails selects exactly the last min(limit, N) matched
\* identifiers, newest first, for every limit >= 0, and returns at most limit
\* records
C20_SearchSelection ==
    (mop = "searchEmails" /\ Selected) =>
        /\ uids = Take(reverse(results), limit)
        /\ (mres # None /\ mres.ok) => Len(mres.val) <= limit

\* an argument that was supplied: present, and not the empty string or false
Supplied(v) ==
    /\ v # Undefined
    /\ v # Str("")
    /\ v # Bool(FALSE)

\* the part of an argument that is an object, if the object was supplied
Part(o, v) == IF o = Undefined THEN Undefined ELSE v

\* the predicates the arguments of the call ask for
Asked ==
    IF mop = "fetchEmails"
    THEN {Predicate("UNSEEN", Undefined) : x \in {params.unreadOnly} \cap {Bool(TRUE)}}
         \cup {Predicate("SINCE", x) : x \in {y \in {params.since} : Supplied(y)}}
    ELSE {Predicate("OR BODY SUBJECT", x) : x \in {y \in {params.query} : Supplied(y)}}
         \cup {Predicate("FROM", x) : x \in {y \in {params.from} : Supplied(y)}}
         \cup {Predicate("SUBJECT", x) : x \in {y \in {params.subject} : Supplied(y)}}
         \cup {Predicate("SINCE", x) :
                  x \in {y \in {Part(params.dateRange, params.dateRange.start)} : Supplied(y)}}
         \cup {Predicate("BEFORE", x) :
                  x \in {y \in {Part(params.dateRange, params.dateRange.end)} : Supplied(y)}}

\* C21: the filter given to the server by fetchEmails and searchEmails holds
\* exactly one predicate per supplied argument and none for an argument that
\* was not supplied, and is the filter ALL exactly when no argument was
\* supplied
C21_FilterIsConjunction ==
    (mpc = "search") =>
        /\ (Asked = {}) <=> (criteria = All)
        /\ Asked # {} => /\ Range(criteria) = Asked
                         /\ Len(criteria) = Cardinality(Asked)

\* C21 witness: searchEmails with every argument supplied searches with five
\* predicates
C21_Witness ==
    /\ mpc = "search" /\ mop = "searchEmails"
    /\ Cardinality(Asked) = 5 /\ Len(criteria) = 5

\* C22: constructing the client opens no connection, the first operation
\* opens exactly one, and as long as no connection has failed or been closed
\* no operation opens another: every command goes over that one connection
C22_LazyConnectAndReuse ==
    /\ ~called => (nconn = 0 /\ imap = 0)
    /\ clean => nconn <= 1
    /\ (clean /\ issued) => (nconn = 1 /\ imap = 1)

\* C22 witness: an operation that found the client connected has issued its
\* command over the first connection
C22_Witness ==
    /\ clean /\ reused /\ issued /\ nconn = 1
    /\ mop \in MailboxOps

\* C23: a connection that has failed or was closed by the server leaves the
\* client marked disconnected, and no operation gives a command to a
\* connection that is down
C23_FailureMarksDisconnected ==
    /\ (link = "down") => ~connected
    /\ (issued /\ ~Quiet) => (link = "up")

\* C24: an operation invoked on a disconnected client connects before any
\* command; if connect() fails the operation is rejected with the error of
\* the connect, has issued no command, and the client is disconnected
ConnectFailureFailsOperation ==
    /\ (mpc \in {"token", "connecting"}) => ~issued
    /\ (issued /\ ~reused) => (isConnected \/ Quiet)
    /\ (cfail # "") => /\ mres = Reject(cfail)
                       /\ ~issued
                       /\ (mop \in MailboxOps) => ~isConnected

ConnectsFirst ==
    (mpc = "idle" /\ mop' \in MailboxOps /\ ~isConnected) => (mpc' = "token" /\ ~issued')

C24_ConnectFailurePropagates ==
    /\ []ConnectFailureFailsOperation
    /\ [][ConnectsFirst]_allvars

\* C24 witness: listMailboxes on a disconnected client, rejected with the
\* transport error of its connect
C24_Witness ==
    /\ mop = "listMailboxes"
    /\ cfail = "TransportError"
    /\ mres = Reject("TransportError")
    /\ ~issued

\* C25: when disconnect() has completed the client is disconnected and holds
\* no connection object
C25_DisconnectReleases ==
    (mop = "disconnect" /\ mres # None) => (~isConnected /\ imap = 0)

\* the nodes of a hierarchy, each as the positions that lead to it
RECURSIVE NodePaths(_)
NodePaths(h) ==
    UNION {{<<i>>} \cup {<<i>> \o q : q \in NodePaths(h[i].children)} : i \in 1..Len(h)}

RECURSIVE NodeAt(_, _)
NodeAt(h, q) == IF Len(q) = 1 THEN h[q[1]] ELSE NodeAt(h[q[1]].children, Tail(q))

\* the name of a node: its own at the top, otherwise its parent's full path,
\* the delimiter and its own name
RECURSIVE FullPath(_, _)
FullPath(h, q) ==
    IF Len(q) = 1
    THEN NodeAt(h, q).name
    ELSE FullPath(h, SubSeq(q, 1, Len(q) - 1)) \o NodeAt(h, q).delimiter \o NodeAt(h, q).name

\* C26: listMailboxes resolves with one name per node of the hierarchy, at
\* every depth: each name as often as there are nodes with that full path
C26_OneNamePerNode ==
    (mop = "listMailboxes" /\ mres # None /\ mres.ok) =>
        /\ Len(mres.val) = Cardinality(NodePaths(boxes))
        /\ \A q \in NodePaths(boxes) :
              Cardinality({i \in 1..Len(mres.val) : mres.val[i] = FullPath(boxes, q)})
              = Cardinality({r \in NodePaths(boxes) : FullPath(boxes, r) = FullPath(boxes, q)})

\* C26 witness: a hierarchy three deep with two folders at the top
C26_Witness ==
    /\ mop = "listMailboxes" /\ mres # None /\ mres.ok
    /\ Len(boxes) = 2
    /\ \E q \in NodePaths(boxes) : Len(q) = 3 /\ FullPath(boxes, q) \in Range(mres.val)

\* the calendars whose objects the operation has asked for, in order
RECURSIVE QueriedIn(_)
QueriedIn(rs) ==
    IF rs = <<>> THEN <<>>
    ELSE (IF Head(rs).kind = "fetchCalendarObjects" THEN <<Head(rs).calendar>> ELSE <<>>)
         \o QueriedIn(Tail(rs))

Queried == QueriedIn(requests)

\* C27: every calendar request carries a token that is neither expired nor
\* within the margin when the request is made, however long ago the client
\* was initialized
C27_RequestTokenFresh ==
    \A i \in 1..Len(requests) :
        requests[i].at < requests[i].expiresAt - MarginMs

\* C28: initialize() on an initialized client requests no token and leaves
\* the client as it was
C28_InitializeIdempotent ==
    (cop.name = "initialize" /\ cop.had # None) =>
        /\ cpc # "init"
        /\ client = cop.had

\* the events of the calendars whose query succeeded, calendar by calendar
RECURSIVE EventsOf(_, _)
EventsOf(cs, outs) ==
    IF cs = <<>> \/ outs = <<>>
    THEN <<>>
    ELSE (IF Head(outs).ok
          THEN SelectSeq([k \in 1..Len(Head(outs).objects) |->
                            parseICalendar(Head(outs).objects[k], Head(cs))],
                         LAMBDA e : e # Null)
          ELSE <<>>)
         \o EventsOf(Tail(cs), Tail(outs))

\* C29: whichever object queries fail, fetchEvents queries every target and
\* resolves with the parsed events of the calendars whose query succeeded,
\* in calendar order
C29_PerCalendarFailureTolerated ==
    /\ (cpc = "query") => cres = None
    /\ (cop.name = "fetchEvents" /\ cpc = "over" /\ targets # <<>>) =>
          /\ Len(outcomes) = Len(targets)
          /\ cres = CalResolve(EventsOf(targets, outcomes))

\* C29 witness: three calendars, the query of the second fails, the result
\* holds the events of the first and of the third
C29_Witness ==
    /\ cop.name = "fetchEvents" /\ cpc = "over"
    /\ Len(targets) = 3 /\ Len(outcomes) = 3
    /\ outcomes[1].ok /\ ~outcomes[2].ok /\ outcomes[3].ok
    /\ cres.ok
    /\ {e.calendarId : e \in Range(cres.val)} = {targets[1], targets[3]}

\* C30: a calendarId that names no discovered calendar fails with calendar
\* not found and no object query; one that names a discovered calendar has
\* that calendar queried and no other; without calendarId every discovered
\* calendar is queried once
C30_TargetSelection ==
    (cop.name = "fetchEvents" /\ cals.known) =>
        IF Supplied(cop.calendarId)
        THEN IF cop.calendarId.s \in Range(cals.list)
             THEN /\ Range(Queried) \subseteq {cop.calendarId.s}
                  /\ (cpc = "over") => Queried = <<cop.calendarId.s>>
             ELSE /\ Queried = <<>>
                  /\ cpc = "over"
                  /\ cres = CalReject("Failed to fetch calendar events: Error: Calendar not found: "
                                      \o cop.calendarId.s)
        ELSE /\ \A i \in 1..Len(Queried) : Queried[i] = cals.list[i]
             /\ Len(Queried) <= Len(cals.list)
             /\ (cpc = "over") => Queried = cals.list

\* C30 witness: the three outcomes of the selection have happened in one
\* state each; this one is the missing calendar among two discovered
C30_Witness ==
    /\ cop.name = "fetchEvents" /\ cals.known /\ cpc = "over"
    /\ cop.calendarId = Str("z")
    /\ Len(cals.list) = 2
    /\ ~cres.ok

\* C38: while clearTokens is the last operation to have written the
\* credential set, the only steps after which a set is in memory or on disk
\* are setTokens and the response of an exchange of a code
C38_ClearedStaysCleared ==
    [][(cleared > 0 /\ (tokens' # Undefined \/ disk' # NoFile)) =>
          \/ \E st \in SetTokensInputs : SetTokens(st)
          \/ \E c \in Callers : \E r \in Responses(req[c].n) : ExchangeResponse(c, r)]_allvars

\* C39: when the discovery of the calendars fails, fetchEvents fails with
\* the discovery error and asks for the objects of no calendar, whether a
\* calendarId was given or not
C39_DiscoveryFailureNotSwallowed ==
    (cop.name = "fetchEvents" /\ cpc = "over" /\ ~cals.known /\ client # None) =>
        /\ cres = CalReject("Failed to fetch calendar events: Error: "
                            \o "Failed to list calendars: Error: PROPFIND")
        /\ Queried = <<>>
        /\ outcomes = <<>>

\* C39 witness: fetchEvents with a calendarId, rejected after a failed
\* discovery
C39_Witness ==
    /\ cop.name = "fetchEvents" /\ cpc = "over" /\ ~cals.known /\ client # None
    /\ cop.calendarId = Str("a")
    /\ Len(requests) = 1 /\ requests[1].kind = "fetchCalendars"
    /\ ~cres.ok

AllDigits(str) == \A i \in 1..Len(str) : IsDigit(str[i])

\* the number written by the characters from position a to position b
Field(str, a, b) == DecimalValue(SubSeq(str, a, b))

\* C32: parseICalendarDate classifies by length only: 8 characters are the
\* date YYYYMMDD at midnight, 15 or more are the date-time YYYYMMDDTHHMMSS of
\* the first 15 with the rest ignored, any other length is the date-format
\* error
C32_DateByLength ==
    dateRes # None =>
        /\ Len(dateArg) = 8 =>
              /\ dateRes # Thrown
              /\ AllDigits(dateArg) =>
                    dateRes = [t |-> "object", valid |-> TRUE,
                               year |-> Field(dateArg, 1, 4),
                               month |-> Field(dateArg, 5, 6) - 1,
                               day |-> Field(dateArg, 7, 8),
                               hours |-> 0, minutes |-> 0, seconds |-> 0]
        /\ Len(dateArg) >= 15 =>
              /\ dateRes # Thrown
              /\ dateRes = parseICalendarDate(SubSeq(dateArg, 1, 15))
              /\ (AllDigits(SubSeq(dateArg, 1, 8)) /\ AllDigits(SubSeq(dateArg, 10, 15))) =>
                    dateRes = [t |-> "object", valid |-> TRUE,
                               year |-> Field(dateArg, 1, 4),
                               month |-> Field(dateArg, 5, 6) - 1,
                               day |-> Field(dateArg, 7, 8),
                               hours |-> Field(dateArg, 10, 11),
                               minutes |-> Field(dateArg, 12, 13),
                               seconds |-> Field(dateArg, 14, 15)]
        /\ (Len(dateArg) # 8 /\ Len(dateArg) < 15) => dateRes = Thrown

\* C32 witness: a date-time followed by a zone suffix has been parsed
C32_Witness ==
    /\ dateRes # None /\ dateRes # Thrown
    /\ Len(dateArg) = 18
    /\ dateRes.valid /\ dateRes.year = 1999 /\ dateRes.month = 11
    /\ dateRes.hours = 23 /\ dateRes.seconds = 59

\* the calendar operation in progress is a fetchEvents that went through
\* its loop and is over
FetchEventsOver == cop.name = "fetchEvents" /\ cpc = "over" /\ targets # <<>>

\* C31: every record returned by fetchEvents has a non-empty id, a non-empty
\* summary, and a start and an end that are valid dates
C31_NoPartialRecord ==
    (FetchEventsOver /\ cres.ok) =>
        \A i \in 1..Len(cres.val) :
            /\ Truthy(cres.val[i].id)
            /\ Truthy(cres.val[i].summary)
            /\ cres.val[i].start # Undefined /\ cres.val[i].start.valid
            /\ cres.val[i].end # Undefined /\ cres.val[i].end.valid

\* the DTSTART or DTEND value of a line of the object has a length that
\* parseICalendarDate does not take
UnsupportedLength(data) ==
    \E i \in 1..Len(data) :
        /\ startsWith(data[i], Chars("DTSTART")) \/ startsWith(data[i], Chars("DTEND"))
        /\ Len(DateText(data[i])) # 8
        /\ Len(DateText(data[i])) < 15

HasLine(data, prefix) == \E i \in 1..Len(data) : startsWith(data[i], prefix)

\* the UID of an object of QueryOutcomes: its second line
UidOf(data) == Str(Join(substringFrom(data[2], 4)))

Returned(uid, calendarId) ==
    \E j \in 1..Len(cres.val) :
        cres.val[j].id = uid /\ cres.val[j].calendarId = calendarId

\* C37: an object whose DTSTART or DTEND value has an unsupported length
\* gives no record and no error: fetchEvents resolves, and every object
\* with UID, SUMMARY, DTSTART and DTEND of supported length, of the same
\* calendar or another, has its record in the result
C37_BadDateLengthDropsOnlyItsObject ==
    FetchEventsOver =>
        /\ cres.ok
        /\ \A i \in 1..Len(outcomes) : \A k \in 1..Len(outcomes[i].objects) :
              LET data == outcomes[i].objects[k]
              IN  IF UnsupportedLength(data)
                  THEN /\ parseICalendar(data, targets[i]) = Null
                       /\ ~Returned(UidOf(data), targets[i])
                  ELSE (/\ HasLine(data, Chars("UID:")) /\ HasLine(data, Chars("SUMMARY:"))
                        /\ HasLine(data, Chars("DTSTART")) /\ HasLine(data, Chars("DTEND")))
                       => Returned(UidOf(data), targets[i])

\* C37 witness: two calendars; the first holds an object with a DTSTART of
\* 10 characters followed by a good one, whose record is returned together
\* with the record of the second calendar
C37_Witness ==
    /\ FetchEventsOver /\ cres.ok
    /\ Len(targets) = 2
    /\ outcomes[1].ok /\ Len(outcomes[1].objects) = 3
    /\ UnsupportedLength(outcomes[1].objects[1])
    /\ Returned(Str("3"), targets[1])
    /\ outcomes[2].ok /\ Len(outcomes[2].objects) = 2
    /\ Returned(Str("1"), targets[2])

\* C33: a fetchEvents whose startDate or endDate could not be parsed fails
C33_InvalidDateArgumentFails ==
    (cop.name = "fetchEvents" /\ cpc = "over"
     /\ (~cop.startDate.valid \/ ~cop.endDate.valid)) => ~cres.ok

\* C34: the client holds at most one open connection, the one in this.imap,
\* and isConnected() is true only while that connection is up
C34_OneLiveConnection ==
    /\ Cardinality(live) <= 1
    /\ live \subseteq {imap}
    /\ isConnected => link = "up"

\* C36: the bytes given to the parser for a message are all the chunks of
\* that message, in order, and no chunk of another message
C36_ParsedFromCompleteBytes ==
    \A m \in 1..Len(chunks) :
        parserInput[m].given =>
            parserInput[m].bytes = [k \in 1..chunks[m] |-> <<m, k>>]

\* the requests whose operation is between its openBox and the end of its
\* fetch
InFlight == {r \in 1..NRequests : rpc[r] \in {"openBox", "search", "fetch"}}

\* C35: at most one mailbox operation is in flight on the shared client, and
\* the records of an operation were fetched while its folder was selected
C35_OperationsSerialized ==
    /\ Cardinality(InFlight) <= 1
    /\ \A r \in 1..NRequests : (rpc[r] = "done") => (fetchedIn[r] = rfolder[r])

====
